---- MODULE Spec2Model ----
(***************************************************************************)
(* A model of the arcade's application loop (src/src/app.rs): the run      *)
(* loop with its tick boundary, key dispatch through the command palette,  *)
(* the active game and the menu, the command verbs, toasts and the per-    *)
(* kind score history.  A game module is seen through the dispatcher       *)
(* (src/src/games/mod.rs): its kind, whether its state is still the        *)
(* constructed one, and the GameAction each call returns.  The motion     *)
(* parser (src/src/games/navigation.rs) is followed on its own, over grids *)
(* and cursors of every small size, and so are the game modules that       *)
(* report records (typing_game.rs, sequence.rs, verbal_memory.rs, fps.rs), *)
(* each under its own keys, ticks and clock.                               *)
(*                                                                         *)
(* Time is in milliseconds and relative: `elapsed` is last_tick.elapsed()  *)
(* and a toast carries its age (now - creation), so expires_at = creation  *)
(* + 3 s is "age > TOAST_MS".  Both saturate just above the only values    *)
(* the code compares them with.                                            *)
(***************************************************************************)
EXTENDS Integers, Sequences, FiniteSets, TLC

VARIABLES
    menu,         \* MenuState.selected: index into GameKind::ALL
    active,       \* App.active: Option<GameState>
    stats,        \* App.stats: per-kind history of records
    should_quit,  \* App.should_quit
    toast,        \* App.toast: Option<Toast>
    command,      \* App.command: Option<CommandPalette>
    show_help,    \* App.show_help
    pc,           \* position of App::run: "draw", "poll", "tick", "done"
    elapsed,      \* last_tick.elapsed(), saturating at ElapsedCap
    timeout,      \* the timeout of the event::poll about to be made (0 otherwise)
    iter,         \* the steps the current loop iteration has performed
    delivered,    \* this iteration's event and the handlers it was given to
    returned,     \* the GameAction the game call of the last step returned
    nav,          \* a VimMotionState
    cursor,       \* the cursor handle_key moves: <<cursor.0, cursor.1>>
    grid,         \* the width and height handle_key is called with
    keyed,        \* the last key given to the parser, the parser it was
                  \* given to, and what handle_key returned
    game          \* one game module's own state (NoGame where none is followed)

vars == <<menu, active, stats, should_quit, toast, command, show_help,
          pc, elapsed, timeout, iter, delivered, returned,
          nav, cursor, grid, keyed, game>>

\* The state of App::run.
appvars == <<menu, active, stats, should_quit, toast, command, show_help,
             pc, elapsed, timeout, iter, delivered, returned>>

\* The state of the motion parser and its caller.
navvars == <<nav, cursor, grid, keyed>>

\* The state of App::run but for the two records of what a call was given
\* and what it returned.
loopvars == <<menu, active, stats, should_quit, toast, command, show_help,
              pc, elapsed, timeout, iter>>

----------------------------------------------------------------------------
(* Bounds of the model *)

\* How many of the GameKind variants (in the order of GameKind::ALL) exist.
NumKinds == 3
\* A game's internal state: 0 as constructed, counting the calls that
\* changed it up to this bound.
MaxSteps == 1
\* The largest score a game reports.
MaxScore == 1
\* How many records the games report where the histories are followed.
MaxRecorded == 2
\* The largest width and height of the grids the motion parser is given.
MaxExtent == 4
\* The longest run of digit keys followed as one text.
MaxDigits == 3
\* The most characters typed in one typing round.
MaxTyped == 2
\* How many of the words of verbal memory are drawn.
NumWords == 2
\* The largest score of a verbal memory run.
MaxVerbalScore == 2
\* The longest pattern of sequence memory, and how many cells of its top
\* row the patterns are drawn from.
MaxSequence == 2
NumCells == 2
\* The most enemies on the shooter's field and the most kills of a run.
MaxEnemies == 2
MaxKills == 2
\* The longest shooter run, in steps of its clock, and how far the
\* heading turns, in turn steps.
MaxRunSteps == 5
MaxHeading == 1
\* The highest level of the chimp test.
MaxLevel == 2
MaxField == 3
MaxDrift == 256
WordBits == 16

(* Program constants *)
TICK_RATE == 50
HISTORY_LIMIT == 64
TOAST_MS == 3000

ElapsedCap == 2 * TICK_RATE
AgeCap == TOAST_MS + 1

Min(a, b) == IF a < b THEN a ELSE b

None == <<>>
Some(x) == <<x>>
IsSome(o) == o # <<>>
Unwrap(o) == o[1]

Kinds == 0 .. (NumKinds - 1)

title(kind) ==
    CASE kind = 0 -> "Reaction Time"
      [] kind = 1 -> "Sequence Memory"
      [] kind = 2 -> "Aim Trainer"
      [] kind = 3 -> "Number Memory"
      [] kind = 4 -> "Verbal Memory"
      [] kind = 5 -> "Chimp Test"
      [] kind = 6 -> "Visual Memory"
      [] OTHER -> "Typing"

----------------------------------------------------------------------------
(* Keys and events *)

NoMods == {}
Key(code) == [code |-> code, ch |-> "", mods |-> NoMods]
Char(ch) == [code |-> "Char", ch |-> ch, mods |-> NoMods]
CharMod(ch, mods) == [code |-> "Char", ch |-> ch, mods |-> mods]

KeyEvent(key) == [type |-> "Key", key |-> key]
OtherEvent == [type |-> "Other", key |-> Key("Null")]
NoEvent == [type |-> "None", key |-> Key("Null")]

\* char::is_control for the characters of the model
ControlChars == {"^A"}
is_control(ch) == ch \in ControlChars

\* char::is_whitespace for the characters of the model
is_whitespace(ch) == ch = " "

RECURSIVE trim_start(_)
trim_start(s) ==
    IF s # <<>> /\ is_whitespace(Head(s)) THEN trim_start(Tail(s)) ELSE s

RECURSIVE trim_end(_)
trim_end(s) ==
    IF s # <<>> /\ is_whitespace(s[Len(s)])
    THEN trim_end(SubSeq(s, 1, Len(s) - 1))
    ELSE s

\* the buffer taken as typed
untrimmed(s) == s

trim(s) == trim_end(trim_start(s))

----------------------------------------------------------------------------
(* Toast *)

Toast_new(message) == [message |-> message, age |-> 0]

\* is_expired that holds at the deadline already
Toast_is_expired_at_deadline(t) == t.age >= TOAST_MS

Toast_is_expired(t) == t.age > TOAST_MS

\* The toast after d more milliseconds.
ToastAfter(t, d) ==
    IF IsSome(t)
    THEN Some([Unwrap(t) EXCEPT !.age = Min(@ + d, AgeCap)])
    ELSE t

----------------------------------------------------------------------------
(* Game modules behind the dispatcher *)

GameState_new(kind) == [kind |-> kind, steps |-> 0]

GameState_kind(g) == g.kind

NoAction == [type |-> "None", record |-> 0, kind |-> 0]
Record(record, kind) == [type |-> "Record", record |-> record, kind |-> kind]

\* What one handle_event or handle_tick call may do to the module g: leave
\* its state or change it, and return no effect or a record of its own kind.
GameOutcomes(g) ==
    { [state |-> s, action |-> a] :
        s \in {g, [g EXCEPT !.steps = Min(@ + 1, MaxSteps)]},
        a \in {NoAction} \cup {Record(r, g.kind) : r \in 0 .. MaxScore} }

NoOutcome == [state |-> GameState_new(0), action |-> NoAction]

----------------------------------------------------------------------------
(* MenuState *)

MenuState_next(selected) == (selected + 1) % NumKinds

MenuState_previous(selected) ==
    IF selected = 0 THEN NumKinds - 1 ELSE selected - 1

MenuState_selected_kind(selected) == selected

----------------------------------------------------------------------------
(* App *)

App == [menu |-> menu, active |-> active, stats |-> stats,
        should_quit |-> should_quit, toast |-> toast, command |-> command,
        show_help |-> show_help]

\* the record put in front of the history
handle_game_action_prepends(app, action) ==
    IF action.type = "None"
    THEN app
    ELSE [app EXCEPT !.stats[action.kind] = <<action.record>> \o @]

\* the record pushed without the drain that follows it
handle_game_action_uncapped(app, action) ==
    IF action.type = "None"
    THEN app
    ELSE [app EXCEPT !.stats[action.kind] = Append(@, action.record)]

handle_game_action(app, action) ==
    IF action.type = "None"
    THEN app
    ELSE LET pushed == Append(app.stats[action.kind], action.record)
             overflow == Len(pushed) - HISTORY_LIMIT
             history == IF Len(pushed) > HISTORY_LIMIT
                        THEN SubSeq(pushed, overflow + 1, Len(pushed))
                        ELSE pushed
         IN [app EXCEPT !.stats[action.kind] = history]

launch_selected_game(app) ==
    LET kind == MenuState_selected_kind(app.menu)
    IN [app EXCEPT !.active = Some(GameState_new(kind)),
                   !.toast = Some(Toast_new(<<"Starting ", title(kind)>>))]

handle_menu_key(app, key) ==
    CASE key.code = "Down" \/ (key.code = "Char" /\ key.ch = "j") ->
            [app EXCEPT !.menu = MenuState_next(@)]
      [] key.code = "Up" \/ (key.code = "Char" /\ key.ch = "k") ->
            [app EXCEPT !.menu = MenuState_previous(@)]
      [] key.code = "Enter" \/ (key.code = "Char" /\ key.ch = "l") ->
            launch_selected_game(app)
      [] key.code = "Char" /\ key.ch = "h" ->
            [app EXCEPT !.toast = Some(Toast_new(<<"Use enter to launch a game">>))]
      [] OTHER -> app

\* "qa" quitting the way "q" does: only from the menu.
quit_all_from_menu_only(app) ==
    IF IsSome(app.active)
    THEN [app EXCEPT !.active = None,
                     !.toast = Some(Toast_new(<<"Returned to menu">>))]
    ELSE [app EXCEPT !.should_quit = TRUE]

\* "qa" | "quitall"
quit_all(app) == [app EXCEPT !.should_quit = TRUE]

\* "q" quitting outright, game or not.
quit_run_always_quits(app) == [app EXCEPT !.should_quit = TRUE]

\* "q" | "quit"
quit_run(app) ==
    IF IsSome(app.active)
    THEN [app EXCEPT !.active = None,
                     !.toast = Some(Toast_new(<<"Returned to menu">>))]
    ELSE [app EXCEPT !.should_quit = TRUE]

\* "menu"
return_to_menu(app) ==
    [app EXCEPT !.active = None,
                !.toast = Some(Toast_new(<<"Returned to menu">>))]

\* "restart" announcing the restart and keeping the running instance.
restart_run_keeps_instance(app) ==
    IF IsSome(app.active)
    THEN LET kind == GameState_kind(Unwrap(app.active))
         IN [app EXCEPT !.toast = Some(Toast_new(<<"Restarted ", title(kind)>>))]
    ELSE app

\* "restart"
restart_run(app) ==
    IF IsSome(app.active)
    THEN LET kind == GameState_kind(Unwrap(app.active))
         IN [app EXCEPT !.active = Some(GameState_new(kind)),
                        !.toast = Some(Toast_new(<<"Restarted ", title(kind)>>))]
    ELSE app

\* "help"
toggle_help(app) ==
    LET shown == ~app.show_help
        state == IF shown THEN "shown" ELSE "hidden"
    IN [app EXCEPT !.show_help = shown,
                   !.toast = Some(Toast_new(<<"Controls ", state>>))]

\* an unknown command sending the user back to the menu.
unknown_command_leaves_game(app, other) ==
    [app EXCEPT !.active = None,
                !.toast = Some(Toast_new(<<"Unknown command :">> \o other))]

\* other => toast "Unknown command :{other}"
unknown_command(app, other) ==
    [app EXCEPT !.toast = Some(Toast_new(<<"Unknown command :">> \o other))]

execute_command(app, buffer) ==
    CASE buffer \in {<<"q", "a">>, <<"q", "u", "i", "t", "a", "l", "l">>} ->
            quit_all(app)
      [] buffer \in {<<"q">>, <<"q", "u", "i", "t">>} -> quit_run(app)
      [] buffer = <<"m", "e", "n", "u">> -> return_to_menu(app)
      [] buffer = <<"r", "e", "s", "t", "a", "r", "t">> -> restart_run(app)
      [] buffer = <<"h", "e", "l", "p">> -> toggle_help(app)
      [] buffer = <<>> -> app
      [] OTHER -> unknown_command(app, buffer)

\* handle_command_key reporting a key as taken only in the arms that act.
handle_command_key_unhandled_rest(app, key) ==
    IF IsSome(app.command)
    THEN LET buf == Unwrap(app.command)
         IN CASE key.code = "Esc" ->
                   [app |-> [app EXCEPT !.command = None], handled |-> TRUE,
                    ran |-> None]
              [] key.code = "Enter" ->
                   [app |-> execute_command([app EXCEPT !.command = None], trim(buf)),
                    handled |-> TRUE, ran |-> Some(trim(buf))]
              [] key.code = "Backspace" ->
                   [app |-> [app EXCEPT !.command =
                                Some(IF buf = <<>> THEN buf
                                     ELSE SubSeq(buf, 1, Len(buf) - 1))],
                    handled |-> TRUE, ran |-> None]
              [] key.code = "Char" /\ ~is_control(key.ch) ->
                   [app |-> [app EXCEPT !.command = Some(Append(buf, key.ch))],
                    handled |-> TRUE, ran |-> None]
              [] OTHER -> [app |-> app, handled |-> FALSE, ran |-> None]
    ELSE [app |-> app, handled |-> FALSE, ran |-> None]

\* The app after the key, whether the palette took it, and the command it
\* handed to execute_command, if any.
handle_command_key(app, key) ==
    IF IsSome(app.command)
    THEN LET buf == Unwrap(app.command)
             after ==
               CASE key.code = "Esc" -> [app EXCEPT !.command = None]
                 [] key.code = "Enter" ->
                      execute_command([app EXCEPT !.command = None], trim(buf))
                 [] key.code = "Backspace" ->
                      [app EXCEPT !.command =
                          Some(IF buf = <<>> THEN buf
                               ELSE SubSeq(buf, 1, Len(buf) - 1))]
                 [] key.code = "Char" ->
                      IF ~is_control(key.ch)
                      THEN [app EXCEPT !.command = Some(Append(buf, key.ch))]
                      ELSE app
                 [] OTHER -> app
         IN [app |-> after, handled |-> TRUE,
             ran |-> IF key.code = "Enter" THEN Some(trim(buf)) ELSE None]
    ELSE [app |-> app, handled |-> FALSE, ran |-> None]

\* a game that reports a record is taken off the screen
forward_to_game_ends_on_record(app, out) ==
    IF out.action.type = "Record"
    THEN handle_game_action([app EXCEPT !.active = None], out.action)
    ELSE handle_game_action([app EXCEPT !.active = Some(out.state)], out.action)

\* The app after the game's call: its new state, and its action merged.
forward_to_game(app, out) ==
    handle_game_action([app EXCEPT !.active = Some(out.state)], out.action)

\* handle_key asking the active game before it looks for ':'.
handle_key_game_before_colon(app, key, out) ==
    LET cmd == handle_command_key(app, key)
    IN IF cmd.handled
       THEN [app |-> cmd.app, to |-> {"palette"}, ran |-> cmd.ran]
       ELSE IF IsSome(app.active)
       THEN [app |-> forward_to_game(app, out), to |-> {"game"}, ran |-> None]
       ELSE IF key.code = "Char" /\ key.ch = ":" /\ key.mods = {}
       THEN [app |-> [app EXCEPT !.command = Some(<<>>)], to |-> {"open"},
             ran |-> None]
       ELSE [app |-> handle_menu_key(app, key), to |-> {"menu"}, ran |-> None]

\* handle_key giving the key to the game and then to the menu as well.
handle_key_game_and_menu(app, key, out) ==
    LET cmd == handle_command_key(app, key)
    IN IF cmd.handled
       THEN [app |-> cmd.app, to |-> {"palette"}, ran |-> cmd.ran]
       ELSE IF key.code = "Char" /\ key.ch = ":" /\ key.mods = {}
       THEN [app |-> [app EXCEPT !.command = Some(<<>>)], to |-> {"open"},
             ran |-> None]
       ELSE IF IsSome(app.active)
       THEN [app |-> handle_menu_key(forward_to_game(app, out), key),
             to |-> {"game", "menu"}, ran |-> None]
       ELSE [app |-> handle_menu_key(app, key), to |-> {"menu"}, ran |-> None]

\* The app after the key, the handlers the key was given to and the
\* command that ran; `out` is what the active game does with the key when
\* it gets it.
handle_key(app, key, out) ==
    LET cmd == handle_command_key(app, key)
    IN IF cmd.handled
       THEN [app |-> cmd.app, to |-> {"palette"}, ran |-> cmd.ran]
       ELSE IF key.code = "Char" /\ key.ch = ":" /\ key.mods = {}
       THEN [app |-> [app EXCEPT !.command = Some(<<>>)], to |-> {"open"},
             ran |-> None]
       ELSE IF IsSome(app.active)
       THEN [app |-> forward_to_game(app, out), to |-> {"game"}, ran |-> None]
       ELSE [app |-> handle_menu_key(app, key), to |-> {"menu"}, ran |-> None]

handle_event(app, event, out) ==
    IF event.type = "Key"
    THEN handle_key(app, event.key, out)
    ELSE IF IsSome(app.active)
    THEN [app |-> forward_to_game(app, out), to |-> {"game"}, ran |-> None]
    ELSE [app |-> app, to |-> {}, ran |-> None]

\* the boundary counted as reached only once it is passed
tick_due_when_passed(e) == e > TICK_RATE

\* the boundary taken as reached at half the period
tick_due_at_half(e) == 2 * e >= TICK_RATE

\* last_tick.elapsed() >= TICK_RATE
tick_due(e) == e >= TICK_RATE

on_tick(app, out) ==
    LET a1 == IF IsSome(app.toast) /\ Toast_is_expired(Unwrap(app.toast))
              THEN [app EXCEPT !.toast = None]
              ELSE app
    IN IF IsSome(a1.active) THEN forward_to_game(a1, out) ELSE a1

\* the subtraction without the check
PollTimeout_unchecked(e) == TICK_RATE - e

\* TICK_RATE.checked_sub(last_tick.elapsed()).unwrap_or(0)
PollTimeout(e) == IF TICK_RATE - e >= 0 THEN TICK_RATE - e ELSE 0

----------------------------------------------------------------------------
(* VimMotionState: the motion parser *)

\* The largest count the parser keeps pending.
COUNT_CAP == 999

VimMotionState_default == [count |-> None, pending_g |-> FALSE]

VimMotionState_clear(state) == [state EXCEPT !.count = None, !.pending_g = FALSE]

consume_pending(state) == [state EXCEPT !.pending_g = FALSE]

is_ascii_digit(ch) ==
    ch \in {"0", "1", "2", "3", "4", "5", "6", "7", "8", "9"}

to_digit(ch) ==
    CASE ch = "0" -> 0 [] ch = "1" -> 1 [] ch = "2" -> 2 [] ch = "3" -> 3
      [] ch = "4" -> 4 [] ch = "5" -> 5 [] ch = "6" -> 6 [] ch = "7" -> 7
      [] ch = "8" -> 8 [] ch = "9" -> 9

saturating_sub(a, b) == IF a >= b THEN a - b ELSE 0

clamp(v, lo, hi) == IF v < lo THEN lo ELSE IF v > hi THEN hi ELSE v

(* usize and isize, carried as two's complement words of WordBits bits:
   the integers of the checker hold no word of 64 bits, and the parser
   depends on the width of the word by nothing but the place of a value
   against the ends of the two ranges, the count's cap being far below
   them.  `as isize` and `as usize` keep the bits of the word; an addition
   that leaves the range of isize panics where the checks are compiled in
   and wraps where they are not. *)
USIZE_RANGE == 2 ^ WordBits
USIZE_MAX == USIZE_RANGE - 1
ISIZE_MAX == (USIZE_RANGE \div 2) - 1
ISIZE_MIN == 0 - (USIZE_RANGE \div 2)

as_isize(n) == IF n > ISIZE_MAX THEN n - USIZE_RANGE ELSE n
as_usize(i) == IF i < 0 THEN i + USIZE_RANGE ELSE i
isize_overflows(v) == v > ISIZE_MAX \/ v < ISIZE_MIN
isize_wrap(v) == ((v - ISIZE_MIN) % USIZE_RANGE) + ISIZE_MIN

unwrap_or(o, d) == IF IsSome(o) THEN Unwrap(o) ELSE d

\* the digits accumulated without the cap
accumulate_uncapped(count, digit) == unwrap_or(count, 0) * 10 + digit

\* count.unwrap_or(0).saturating_mul(10).saturating_add(digit).min(999);
\* the count is at most 999 and the product far from usize::MAX
accumulate(count, digit) == Min(unwrap_or(count, 0) * 10 + digit, COUNT_CAP)

\* the steps taken around the edges of the grid
move_steps_wrapping(c, width, height, dx, dy, steps) ==
    <<(c[1] + dx * steps) % width, (c[2] + dy * steps) % height>>

\* the steps taken with no edge to stop them
move_steps_unclamped(c, width, height, dx, dy, steps) ==
    <<c[1] + dx * steps, c[2] + dy * steps>>

\* for _ in 0..steps { one cell, or break where the cell does not change }
RECURSIVE move_steps(_, _, _, _, _, _)
move_steps(c, width, height, dx, dy, steps) ==
    IF steps = 0 THEN c
    ELSE LET new_x == as_usize(clamp(isize_wrap(as_isize(c[1]) + dx), 0,
                                     as_isize(saturating_sub(width, 1))))
             new_y == as_usize(clamp(isize_wrap(as_isize(c[2]) + dy), 0,
                                     as_isize(saturating_sub(height, 1))))
         IN IF new_x = c[1] /\ new_y = c[2]
            THEN c
            ELSE move_steps(<<new_x, new_y>>, width, height, dx, dy, steps - 1)

\* a move of one cell whatever count is pending
move_cursor_one_step(state, c, width, height, dx, dy) ==
    IF width = 0 \/ height = 0
    THEN [nav |-> [state EXCEPT !.count = None], cursor |-> c]
    ELSE [nav |-> [state EXCEPT !.count = None],
          cursor |-> move_steps(c, width, height, dx, dy, 1)]

\* The parser and the cursor after move_cursor.
move_cursor(state, c, width, height, dx, dy) ==
    IF width = 0 \/ height = 0
    THEN [nav |-> [state EXCEPT !.count = None], cursor |-> c]
    ELSE [nav |-> [state EXCEPT !.count = None],
          cursor |-> move_steps(c, width, height, dx, dy,
                                unwrap_or(state.count, 1))]

\* a '0' that goes to column 0 whether or not a count is pending
key_digit_zero_jumps(state, c, width, height, ch) ==
    LET digit == to_digit(ch)
    IN IF digit = 0
       THEN [nav |-> [state EXCEPT !.pending_g = FALSE, !.count = None],
             cursor |-> IF width > 0 THEN <<0, c[2]>> ELSE c,
             handled |-> TRUE]
       ELSE [nav |-> [state EXCEPT !.pending_g = FALSE,
                                   !.count = Some(accumulate(state.count, digit))],
             cursor |-> c,
             handled |-> TRUE]

\* KeyCode::Char(ch) if ch.is_ascii_digit()
key_digit(state, c, width, height, ch) ==
    LET digit == to_digit(ch)
    IN IF digit = 0 /\ ~IsSome(state.count)
       THEN [nav |-> [state EXCEPT !.pending_g = FALSE, !.count = None],
             cursor |-> IF width > 0 THEN <<0, c[2]>> ELSE c,
             handled |-> TRUE]
       ELSE [nav |-> [state EXCEPT !.pending_g = FALSE,
                                   !.count = Some(accumulate(state.count, digit))],
             cursor |-> c,
             handled |-> TRUE]

\* a single 'g' that goes to row 0 at once
key_g_single_jumps(state, c, width, height) ==
    [nav |-> [state EXCEPT !.count = None, !.pending_g = FALSE],
     cursor |-> IF height > 0 THEN <<c[1], 0>> ELSE c,
     handled |-> TRUE]

\* KeyCode::Char('g')
key_g(state, c, width, height) ==
    IF state.pending_g
    THEN [nav |-> [state EXCEPT !.count = None, !.pending_g = FALSE],
          cursor |-> IF height > 0 THEN <<c[1], 0>> ELSE c,
          handled |-> TRUE]
    ELSE [nav |-> [state EXCEPT !.pending_g = TRUE], cursor |-> c,
          handled |-> TRUE]

\* a 'G' that goes to the row its count names, as the editor's does
key_G_goes_to_count(state, c, width, height) ==
    [nav |-> [state EXCEPT !.pending_g = FALSE, !.count = None],
     cursor |-> IF height > 0
                THEN <<c[1], IF IsSome(state.count)
                             THEN Min(Unwrap(state.count), height) - 1
                             ELSE height - 1>>
                ELSE c,
     handled |-> TRUE]

\* KeyCode::Char('G')
key_G(state, c, width, height) ==
    [nav |-> [state EXCEPT !.pending_g = FALSE, !.count = None],
     cursor |-> IF height > 0 THEN <<c[1], height - 1>> ELSE c,
     handled |-> TRUE]

\* KeyCode::Char('$')
key_dollar(state, c, width, height) ==
    [nav |-> [consume_pending(state) EXCEPT !.count = None],
     cursor |-> IF width > 0 THEN <<width - 1, c[2]>> ELSE c,
     handled |-> TRUE]

\* KeyCode::Left | Char('h'), Right | Char('l'), Up | Char('k'),
\* Down | Char('j')
key_direction(state, c, width, height, dx, dy) ==
    LET m == move_cursor(consume_pending(state), c, width, height, dx, dy)
    IN [nav |-> m.nav, cursor |-> m.cursor, handled |-> TRUE]

\* a key outside the grammar dropping the pending count as well
key_other_clears_count(state, c) ==
    [nav |-> VimMotionState_clear(state), cursor |-> c, handled |-> FALSE]

\* _ =>
key_other(state, c) ==
    [nav |-> consume_pending(state), cursor |-> c, handled |-> FALSE]

IsLeft(key) == key.code = "Left" \/ (key.code = "Char" /\ key.ch = "h")
IsRight(key) == key.code = "Right" \/ (key.code = "Char" /\ key.ch = "l")
IsUp(key) == key.code = "Up" \/ (key.code = "Char" /\ key.ch = "k")
IsDown(key) == key.code = "Down" \/ (key.code = "Char" /\ key.ch = "j")

\* VimMotionState::handle_key: the parser and the cursor after the key,
\* and the value returned.
nav_handle_key(state, key, c, width, height) ==
    CASE key.code = "Char" /\ is_ascii_digit(key.ch) ->
            key_digit(state, c, width, height, key.ch)
      [] key.code = "Char" /\ key.ch = "g" -> key_g(state, c, width, height)
      [] key.code = "Char" /\ key.ch = "G" -> key_G(state, c, width, height)
      [] key.code = "Char" /\ key.ch = "$" -> key_dollar(state, c, width, height)
      [] IsLeft(key) -> key_direction(state, c, width, height, -1, 0)
      [] IsRight(key) -> key_direction(state, c, width, height, 1, 0)
      [] IsUp(key) -> key_direction(state, c, width, height, 0, -1)
      [] IsDown(key) -> key_direction(state, c, width, height, 0, 1)
      [] OTHER -> key_other(state, c)

NoKeyed == [key |-> Key("Null"), handled |-> FALSE,
            was |-> VimMotionState_default]

(* The operations of handle_key that can panic: the subtraction of usize
   values (an overflow where the checks are compiled in), Option::unwrap
   of None, and clamp with its lower bound above the upper one. *)

sub_overflows(a, b) == a < b
clamp_panics(lo, hi) == lo > hi

\* `extent - 1` taken without asking whether the extent is positive
last_index_unguarded_panics(extent) == sub_overflows(extent, 1)

\* `if extent > 0 { cursor = extent - 1 }`
last_index_panics(extent) == extent > 0 /\ sub_overflows(extent, 1)

\* ch.to_digit(10).unwrap()
to_digit_panics(ch) == ~is_ascii_digit(ch)

\* move_cursor: the clamps of its loop, reached on a grid with cells when
\* there is a step to make
move_cursor_panics(state, width, height) ==
    /\ ~(width = 0 \/ height = 0)
    /\ unwrap_or(state.count, 1) > 0
    /\ \/ clamp_panics(0, as_isize(saturating_sub(width, 1)))
       \/ clamp_panics(0, as_isize(saturating_sub(height, 1)))

handle_key_panics(state, key, width, height) ==
    CASE key.code = "Char" /\ is_ascii_digit(key.ch) -> to_digit_panics(key.ch)
      [] key.code = "Char" /\ key.ch = "g" -> FALSE
      [] key.code = "Char" /\ key.ch = "G" -> last_index_panics(height)
      [] key.code = "Char" /\ key.ch = "$" -> last_index_panics(width)
      [] IsLeft(key) \/ IsRight(key) \/ IsUp(key) \/ IsDown(key) ->
            move_cursor_panics(state, width, height)
      [] OTHER -> FALSE

\* move_cursor: the additions of its loop, `cursor as isize + d`, leaving
\* the range of isize at one of the steps it makes
RECURSIVE move_steps_overflows(_, _, _, _, _, _)
move_steps_overflows(c, width, height, dx, dy, steps) ==
    IF steps = 0 THEN FALSE
    ELSE \/ isize_overflows(as_isize(c[1]) + dx)
         \/ isize_overflows(as_isize(c[2]) + dy)
         \/ LET n == move_steps(c, width, height, dx, dy, 1)
            IN n # c /\ move_steps_overflows(n, width, height, dx, dy, steps - 1)

move_cursor_overflows(state, c, width, height, dx, dy) ==
    /\ ~(width = 0 \/ height = 0)
    /\ ~move_cursor_panics(state, width, height)
    /\ move_steps_overflows(c, width, height, dx, dy, unwrap_or(state.count, 1))

handle_key_overflows(state, key, c, width, height) ==
    CASE IsLeft(key) -> move_cursor_overflows(state, c, width, height, 0 - 1, 0)
      [] IsRight(key) -> move_cursor_overflows(state, c, width, height, 1, 0)
      [] IsUp(key) -> move_cursor_overflows(state, c, width, height, 0, 0 - 1)
      [] IsDown(key) -> move_cursor_overflows(state, c, width, height, 0, 1)
      [] OTHER -> FALSE

----------------------------------------------------------------------------
(* The game modules that report records *)

\* GameKind of the modules followed on their own; Shooter is the kind
\* fps.rs reports under.
GameKind_Sequence == 1
GameKind_VerbalMemory == 4
GameKind_Typing == 7
GameKind_Shooter == 8

NoGame == [kind |-> 0 - 1]

\* A call that returns GameAction::None and leaves the module as s.
Quiet(s) == [state |-> s, action |-> NoAction]

(* TypingState (typing_game.rs).  The prompt, the typed text and the status
   line feed the rendering and the accuracy only; of the typed text the
   model keeps its length.  `started` is carried as the time since the
   first character while the round runs, `finished` as the length of the
   round that ended. *)

ROUND_DURATION == 30000
MIN_ELAPSED == 100

\* Words per minute, (chars / 5) / (ms / 60000), kept as the exact ratio.
Wpm(chars, ms) == [chars |-> chars, ms |-> ms]
NoWpm == Wpm(0, 1)
wpm_gt(a, b) == a.chars * b.ms > b.chars * a.ms

TypingState_new ==
    [kind |-> GameKind_Typing, typed_len |-> 0, started |-> None,
     finished |-> None, wpm_best |-> NoWpm]

TypingState_restart(g) ==
    [g EXCEPT !.typed_len = 0, !.started = None, !.finished = None]

\* a round that ends without being marked as finished
finish_round_keeps_running(g, round) ==
    LET e == clamp(round, MIN_ELAPSED, ROUND_DURATION)
        wpm == Wpm(g.typed_len, e)
    IN IF wpm_gt(wpm, g.wpm_best)
       THEN [state |-> [g EXCEPT !.wpm_best = wpm],
             action |-> Record(wpm, GameKind_Typing)]
       ELSE Quiet(g)

finish_round(g, round) ==
    IF IsSome(g.finished)
    THEN Quiet(g)
    ELSE LET e == clamp(round, MIN_ELAPSED, ROUND_DURATION)
             wpm == Wpm(g.typed_len, e)
             done == [g EXCEPT !.finished = Some(e)]
         IN IF wpm_gt(wpm, g.wpm_best)
            THEN [state |-> [done EXCEPT !.wpm_best = wpm],
                  action |-> Record(wpm, GameKind_Typing)]
            ELSE Quiet(done)

TypingState_handle_event(g, event) ==
    LET key == event.key
    IN IF event.type # "Key" THEN Quiet(g)
       ELSE CASE key.code = "Char" /\ ~is_control(key.ch) ->
                   IF IsSome(g.finished)
                   THEN Quiet(g)
                   ELSE Quiet([g EXCEPT
                                 !.started = IF IsSome(@) THEN @ ELSE Some(0),
                                 !.typed_len = @ + 1])
              [] key.code = "Backspace" ->
                   IF IsSome(g.finished)
                   THEN Quiet(g)
                   ELSE Quiet([g EXCEPT !.typed_len = saturating_sub(@, 1)])
              [] key.code = "Enter" ->
                   IF IsSome(g.started)
                   THEN IF IsSome(g.finished)
                        THEN Quiet(TypingState_restart(g))
                        ELSE finish_round(g, Unwrap(g.started))
                   ELSE IF IsSome(g.finished)
                        THEN Quiet(TypingState_restart(g))
                        ELSE Quiet(g)
              [] OTHER -> Quiet(g)

TypingState_handle_tick(g) ==
    IF IsSome(g.started) /\ ~IsSome(g.finished)
         /\ Unwrap(g.started) >= ROUND_DURATION
    THEN finish_round(g, ROUND_DURATION)
    ELSE Quiet(g)

\* The module d milliseconds later: the running round is d older (every
\* reading of it is taken against ROUND_DURATION, where it saturates).
TypingState_after(g, d) ==
    IF IsSome(g.started) /\ ~IsSome(g.finished)
    THEN [g EXCEPT !.started = Some(Min(Unwrap(@) + d, ROUND_DURATION))]
    ELSE g

(* VerbalMemoryState (verbal_memory.rs); a word is its index in WORDS. *)

LIVES == 3

VerbalMemoryState_new(word) ==
    [kind |-> GameKind_VerbalMemory, seen |-> {}, current |-> word,
     score |-> 0, lives |-> LIVES, best |-> 0, pending_best |-> None]

next_word(g, word) == [g EXCEPT !.current = word]

verbal_flush_pending_record(g) ==
    IF IsSome(g.pending_best)
    THEN [state |-> [g EXCEPT !.pending_best = None],
          action |-> Record(Unwrap(g.pending_best), GameKind_VerbalMemory)]
    ELSE Quiet(g)

evaluate(g, guess_seen, word) ==
    IF g.lives = 0 THEN Quiet(g)
    ELSE LET was_seen == g.current \in g.seen
         IN IF guess_seen = was_seen
            THEN LET s == g.score + 1
                     g1 == [g EXCEPT !.score = s, !.seen = @ \cup {g.current}]
                     g2 == IF s > g.best
                           THEN [g1 EXCEPT !.best = s, !.pending_best = Some(s)]
                           ELSE g1
                 IN Quiet(next_word(g2, word))
            ELSE LET g1 == [g EXCEPT !.lives = saturating_sub(@, 1)]
                 IN IF g1.lives = 0
                    THEN LET f == verbal_flush_pending_record(g1)
                         IN [state |-> next_word(f.state, word),
                             action |-> f.action]
                    ELSE Quiet(next_word(g1, word))

VerbalMemoryState_handle_event(g, event, word) ==
    LET key == event.key
    IN IF event.type # "Key" THEN Quiet(g)
       ELSE CASE IsLeft(key) -> evaluate(g, TRUE, word)
              [] IsRight(key) -> evaluate(g, FALSE, word)
              [] key.code = "Enter" /\ g.lives = 0 ->
                   Quiet(VerbalMemoryState_new(word))
              [] OTHER -> Quiet(g)

VerbalMemoryState_handle_tick(g) == Quiet(g)

(* SequenceState (sequence.rs).  `since` of the showing phase is carried as
   the time since it was set, saturating at FLASH_ON, the longer of the two
   durations it is compared with. *)

SEQUENCE_GRID == 3
FLASH_ON == 450
FLASH_OFF == 180

Showing(step, visible, since) ==
    [tag |-> "Showing", step |-> step, visible |-> visible, since |-> since]
Input == [tag |-> "Input", step |-> 0, visible |-> FALSE, since |-> 0]

SequenceState_new(cell) ==
    [kind |-> GameKind_Sequence, sequence |-> <<cell>>, cursor |-> <<0, 0>>,
     idx |-> 0, best |-> 0, pending_best |-> None,
     phase |-> Showing(0, TRUE, 0)]

start_show(g) == [g EXCEPT !.idx = 0, !.phase = Showing(0, TRUE, 0)]

begin_new_round(g, advance, cell) ==
    start_show(IF advance \/ g.sequence = <<>>
               THEN [g EXCEPT !.sequence = Append(@, cell)]
               ELSE g)

sequence_flush_pending_record(g) ==
    IF IsSome(g.pending_best)
    THEN [state |-> [g EXCEPT !.pending_best = None],
          action |-> Record(Unwrap(g.pending_best), GameKind_Sequence)]
    ELSE Quiet(g)

handle_selection(g, cell) ==
    IF g.phase.tag # "Input" THEN Quiet(g)
    ELSE IF g.idx + 1 > Len(g.sequence) THEN Quiet(g)
    ELSE IF g.sequence[g.idx + 1] = g.cursor
    THEN LET g1 == [g EXCEPT !.idx = @ + 1]
         IN IF g1.idx = Len(g1.sequence)
            THEN LET completed == Len(g1.sequence)
                     g2 == IF completed > g1.best
                           THEN [g1 EXCEPT !.best = completed,
                                           !.pending_best = Some(completed)]
                           ELSE g1
                 IN Quiet(begin_new_round(g2, TRUE, cell))
            ELSE Quiet(g1)
    ELSE LET g1 == IF saturating_sub(Len(g.sequence), 1) > g.best
                   THEN [g EXCEPT !.best = Len(g.sequence) - 1,
                                  !.pending_best = Some(Len(g.sequence) - 1)]
                   ELSE g
             f == sequence_flush_pending_record(g1)
             g2 == [f.state EXCEPT !.sequence = <<>>, !.idx = 0]
         IN [state |-> begin_new_round(g2, FALSE, cell), action |-> f.action]

sequence_move_cursor(g, dx, dy) ==
    [g EXCEPT !.cursor = <<clamp(@[1] + dx, 0, SEQUENCE_GRID - 1),
                           clamp(@[2] + dy, 0, SEQUENCE_GRID - 1)>>]

SequenceState_handle_event(g, event, cell) ==
    LET key == event.key
    IN IF event.type # "Key" THEN Quiet(g)
       ELSE CASE IsLeft(key) -> Quiet(sequence_move_cursor(g, 0 - 1, 0))
              [] IsRight(key) -> Quiet(sequence_move_cursor(g, 1, 0))
              [] IsUp(key) -> Quiet(sequence_move_cursor(g, 0, 0 - 1))
              [] IsDown(key) -> Quiet(sequence_move_cursor(g, 0, 1))
              [] key.code = "Enter" \/ (key.code = "Char" /\ key.ch = " ") ->
                   handle_selection(g, cell)
              [] OTHER -> Quiet(g)

SequenceState_handle_tick(g) ==
    LET p == g.phase
    IN IF p.tag # "Showing" THEN Quiet(g)
       ELSE IF p.visible /\ p.since >= FLASH_ON
       THEN Quiet([g EXCEPT !.phase = Showing(p.step, FALSE, 0)])
       ELSE IF ~p.visible /\ p.since >= FLASH_OFF
       THEN IF p.step + 1 >= Len(g.sequence)
            THEN Quiet([g EXCEPT !.phase = Input])
            ELSE Quiet([g EXCEPT !.phase = Showing(p.step + 1, TRUE, 0)])
       ELSE Quiet(g)

SequenceState_after(g, d) ==
    IF g.phase.tag = "Showing"
    THEN [g EXCEPT !.phase.since = Min(@ + d, FLASH_ON)]
    ELSE g

(* ShooterState (fps.rs).  Lengths are in thousandths of a unit, times in
   milliseconds, speeds in thousandths of a unit per second, and the
   heading is counted in turn steps (TURN_STEP is one 48th of a turn).
   The instants start_time, last_tick and last_spawn are carried as the
   time since them, reloading_until as the time left until it.  The clocks
   of a run that is over are read by no handler and stay as the death left
   them.  last_fire is carried as the time since the shot, up to the
   length of the muzzle flash, the only thing it is read for.  The status
   line feeds the rendering only and is left out. *)

HIT_WINDOW == 1500
CLOSE_THRESHOLD == 750
BASE_SPAWN_MS == 1400
MIN_SPAWN_MS == 350
ENEMY_BASE_SPEED == 1400
ENEMY_SPEED_STEP == 80
TURNS == 48
FIRE_FLASH_MS == 120
MAG_CAPACITY == 5
RELOAD_MS == 800
MIN_DEPTH == 100
UNIT == 1000

\* a / b rounded toward zero
Quot(a, b) == IF a >= 0 THEN a \div b ELSE 0 - ((0 - a) \div b)

\* 1000 * sin and 1000 * cos of `steps` turn steps
SinTable ==
    <<0, 131, 259, 383, 500, 609, 707, 793, 866, 924, 966, 991,
      1000, 991, 966, 924, 866, 793, 707, 609, 500, 383, 259, 131,
      0, -131, -259, -383, -500, -609, -707, -793, -866, -924, -966, -991,
      -1000, -991, -966, -924, -866, -793, -707, -609, -500, -383, -259, -131>>
sin(steps) == SinTable[(steps % TURNS) + 1]
cos(steps) == sin(steps + TURNS \div 4)

\* floor of the square root of n, between lo and hi
RECURSIVE sqrt_between(_, _, _)
sqrt_between(n, lo, hi) ==
    IF lo >= hi THEN lo
    ELSE LET mid == (lo + hi + 1) \div 2
         IN IF mid * mid <= n
            THEN sqrt_between(n, mid, hi)
            ELSE sqrt_between(n, lo, mid - 1)
sqrt(n) == sqrt_between(n, 0, 46340)

\* Vec2::distance to the player, who stays at the origin
distance(pos) == sqrt(pos.x * pos.x + pos.y * pos.y)

\* pos.distance(player) < r, taken on the squares
closer_than(pos, r) == pos.x * pos.x + pos.y * pos.y < r * r

\* Vec2::rotate(-heading), scaled by UNIT
rotate_back(pos, heading) ==
    [x |-> pos.x * cos(heading) + pos.y * sin(heading),
     y |-> pos.y * cos(heading) - pos.x * sin(heading)]

\* Enemy::update towards the player after dt milliseconds
Enemy_update(e, dt) ==
    LET d == distance(e.pos)
        step == (e.speed * dt) \div UNIT
    IN [e EXCEPT !.pos = [x |-> 0,
                          y |-> IF d = 0 THEN e.pos.y
                                ELSE e.pos.y + Quot((0 - e.pos.y) * step, d)]]

ShooterState_new ==
    [kind |-> GameKind_Shooter, enemies |-> <<>>, alive |-> TRUE, kills |-> 0,
     start_time |-> 0, last_tick |-> 0, last_spawn |-> 0,
     best_survival |-> None, heading |-> 0,
     last_fire |-> None,
     frozen_elapsed |-> None, shots_remaining |-> MAG_CAPACITY,
     reloading_until |-> None]

shooter_elapsed(g) ==
    IF IsSome(g.frozen_elapsed) THEN Unwrap(g.frozen_elapsed) ELSE g.start_time

\* (0.92 ^ (kills / 4) * BASE_SPAWN_MS) as u64, for kills = 0, 1, ...
SpawnTable == <<1400, 1371, 1342, 1315, 1288, 1261, 1235, 1209, 1184>>
spawn_interval(g) == IF SpawnTable[g.kills + 1] > MIN_SPAWN_MS
    THEN SpawnTable[g.kills + 1] ELSE MIN_SPAWN_MS

spawn_enemy(g, rnd) ==
    [g EXCEPT !.enemies =
        Append(@, [pos |-> [x |-> Quot(cos(rnd.angle) * rnd.distance, UNIT),
                            y |-> Quot(sin(rnd.angle) * rnd.distance, UNIT)],
                   speed |-> ENEMY_BASE_SPEED + ENEMY_SPEED_STEP * g.kills])]

\* how many enemies maybe_spawn is about to add
spawns_due(g) == g.last_spawn \div spawn_interval(g)

\* maybe_spawn with an `if` in the place of the `while`
maybe_spawn_once(g, rnds) ==
    IF g.last_spawn >= spawn_interval(g) /\ rnds # <<>>
    THEN spawn_enemy([g EXCEPT !.last_spawn = @ - spawn_interval(g)],
                     Head(rnds))
    ELSE g

RECURSIVE maybe_spawn(_, _)
maybe_spawn(g, rnds) ==
    IF g.last_spawn >= spawn_interval(g) /\ rnds # <<>>
    THEN maybe_spawn(
            spawn_enemy([g EXCEPT !.last_spawn = @ - spawn_interval(g)],
                        Head(rnds)),
            Tail(rnds))
    ELSE g

\* rotate_camera without the look at `alive`
shooter_rotate_camera_always(g, delta) ==
    [g EXCEPT !.heading = (@ + delta) % TURNS]

shooter_rotate_camera(g, delta) ==
    IF ~g.alive THEN g ELSE [g EXCEPT !.heading = (@ + delta) % TURNS]

\* the swap of swap_remove without the removal
swap_keep(s, i) == [s EXCEPT ![i] = s[Len(s)]]

\* Vec::swap_remove
swap_remove(s, i) ==
    IF i = Len(s)
    THEN SubSeq(s, 1, Len(s) - 1)
    ELSE [k \in 1 .. (Len(s) - 1) |-> IF k = i THEN s[Len(s)] ELSE s[k]]

\* The enemies a shot can hit, and the first of the nearest of them.
in_sights(g, i) ==
    LET cam == rotate_back(g.enemies[i].pos, g.heading)
    IN /\ cam.y > MIN_DEPTH * UNIT
       /\ cam.x <= HIT_WINDOW * UNIT
       /\ 0 - cam.x <= HIT_WINDOW * UNIT

\* hit detection that lets a later enemy at the same depth take the hit
hit_index_last_on_ties(g) ==
    LET depth(i) == rotate_back(g.enemies[i].pos, g.heading).y
        hits == {i \in 1 .. Len(g.enemies) : in_sights(g, i)}
    IN IF hits = {} THEN None
       ELSE Some(CHOOSE i \in hits :
                   \A j \in hits : \/ depth(i) < depth(j)
                                   \/ (depth(i) = depth(j) /\ i >= j))

hit_index(g) ==
    LET depth(i) == rotate_back(g.enemies[i].pos, g.heading).y
        hits == {i \in 1 .. Len(g.enemies) : in_sights(g, i)}
    IN IF hits = {} THEN None
       ELSE Some(CHOOSE i \in hits :
                   \A j \in hits : \/ depth(i) < depth(j)
                                   \/ (depth(i) = depth(j) /\ i <= j))

\* fire that removes the enemy hit without counting the kill
fire_uncounted(g) ==
    IF ~g.alive THEN g
    ELSE IF IsSome(g.reloading_until) /\ Unwrap(g.reloading_until) > 0 THEN g
    ELSE LET g1 == [g EXCEPT !.reloading_until = None]
         IN IF g1.shots_remaining = 0
            THEN [g1 EXCEPT !.reloading_until = Some(RELOAD_MS)]
            ELSE LET g2 == [g1 EXCEPT !.last_fire = Some(0),
                                      !.shots_remaining = @ - 1]
                     hit == hit_index(g2)
                 IN IF IsSome(hit)
                    THEN [g2 EXCEPT !.enemies = swap_remove(@, Unwrap(hit))]
                    ELSE g2

\* fire without the look at the reload's deadline
fire_through_reload(g) ==
    IF ~g.alive THEN g
    ELSE LET g1 == [g EXCEPT !.reloading_until = None]
         IN IF g1.shots_remaining = 0
            THEN [g1 EXCEPT !.reloading_until = Some(RELOAD_MS)]
            ELSE LET g2 == [g1 EXCEPT !.last_fire = Some(0),
                                      !.shots_remaining = @ - 1]
                     hit == hit_index(g2)
                 IN IF IsSome(hit)
                    THEN [g2 EXCEPT !.enemies = swap_remove(@, Unwrap(hit)),
                                    !.kills = @ + 1]
                    ELSE g2

\* fire without the look at the empty magazine
fire_from_empty(g) ==
    IF ~g.alive THEN g
    ELSE IF IsSome(g.reloading_until) /\ Unwrap(g.reloading_until) > 0 THEN g
    ELSE LET g2 == [g EXCEPT !.reloading_until = None,
                             !.last_fire = Some(0),
                             !.shots_remaining = @ - 1]
             hit == hit_index(g2)
         IN IF IsSome(hit)
            THEN [g2 EXCEPT !.enemies = swap_remove(@, Unwrap(hit)),
                            !.kills = @ + 1]
            ELSE g2

fire(g) ==
    IF ~g.alive THEN g
    ELSE IF IsSome(g.reloading_until) /\ Unwrap(g.reloading_until) > 0 THEN g
    ELSE LET g1 == [g EXCEPT !.reloading_until = None]
         IN IF g1.shots_remaining = 0
            THEN [g1 EXCEPT !.reloading_until = Some(RELOAD_MS)]
            ELSE LET g2 == [g1 EXCEPT !.last_fire = Some(0),
                                      !.shots_remaining = @ - 1]
                     hit == hit_index(g2)
                 IN IF IsSome(hit)
                    THEN [g2 EXCEPT !.enemies = swap_remove(@, Unwrap(hit)),
                                    !.kills = @ + 1]
                    ELSE g2

\* handle_failure that reports a time equal to the best one as well
handle_failure_on_ties(g) ==
    IF ~g.alive THEN Quiet(g)
    ELSE LET e == shooter_elapsed(g)
             down == [g EXCEPT !.alive = FALSE, !.frozen_elapsed = Some(e)]
         IN IF ~IsSome(g.best_survival) \/ e >= Unwrap(g.best_survival)
            THEN [state |-> [down EXCEPT !.best_survival = Some(e)],
                  action |-> Record(e, GameKind_Shooter)]
            ELSE Quiet(down)

handle_failure(g) ==
    IF ~g.alive THEN Quiet(g)
    ELSE LET e == shooter_elapsed(g)
             down == [g EXCEPT !.alive = FALSE, !.frozen_elapsed = Some(e)]
         IN IF ~IsSome(g.best_survival) \/ e > Unwrap(g.best_survival)
            THEN [state |-> [down EXCEPT !.best_survival = Some(e)],
                  action |-> Record(e, GameKind_Shooter)]
            ELSE Quiet(down)

\* restart without the reset of the pending reload
shooter_restart_keeps_reload(g) ==
    [ShooterState_new EXCEPT !.best_survival = g.best_survival,
                             !.reloading_until = g.reloading_until]

shooter_restart(g) == [ShooterState_new EXCEPT !.best_survival = g.best_survival]

\* tick_internal that refills the magazine of any pending reload
tick_internal_refills_early(g, rnds) ==
    LET dt == g.last_tick
        g0 == [g EXCEPT !.last_tick = 0]
    IN IF g0.alive
       THEN LET g1 == IF IsSome(g0.reloading_until)
                      THEN [g0 EXCEPT !.reloading_until = None,
                                      !.shots_remaining = MAG_CAPACITY]
                      ELSE g0
                g2 == maybe_spawn(g1, rnds)
                g3 == [g2 EXCEPT !.enemies =
                         [i \in 1 .. Len(@) |-> Enemy_update(@[i], dt)]]
            IN IF \E i \in 1 .. Len(g3.enemies) :
                     closer_than(g3.enemies[i].pos, CLOSE_THRESHOLD)
               THEN handle_failure(g3)
               ELSE Quiet(g3)
       ELSE Quiet(g0)

\* tick_internal, with the places the enemies it adds are spawned at
tick_internal(g, rnds) ==
    LET dt == g.last_tick
        g0 == [g EXCEPT !.last_tick = 0]
    IN IF g0.alive
       THEN LET g1 == IF IsSome(g0.reloading_until)
                              /\ Unwrap(g0.reloading_until) <= 0
                      THEN [g0 EXCEPT !.reloading_until = None,
                                      !.shots_remaining = MAG_CAPACITY]
                      ELSE g0
                g2 == maybe_spawn(g1, rnds)
                g3 == [g2 EXCEPT !.enemies =
                         [i \in 1 .. Len(@) |-> Enemy_update(@[i], dt)]]
            IN IF \E i \in 1 .. Len(g3.enemies) :
                     closer_than(g3.enemies[i].pos, CLOSE_THRESHOLD)
               THEN handle_failure(g3)
               ELSE Quiet([g3 EXCEPT !.enemies =
                     SelectSeq(@, LAMBDA e :
                        ~closer_than(e.pos, CLOSE_THRESHOLD) \/ ~g3.alive)])
       ELSE Quiet(g0)

ShooterState_handle_event(g, event) ==
    LET key == event.key
        ch(c) == key.code = "Char" /\ key.ch = c
    IN IF event.type # "Key" THEN Quiet(g)
       ELSE CASE IsLeft(key) -> Quiet(shooter_rotate_camera(g, 0 - 1))
              [] IsRight(key) -> Quiet(shooter_rotate_camera(g, 1))
              [] ch(" ") \/ key.code = "Enter" ->
                   Quiet(IF g.alive THEN fire(g) ELSE shooter_restart(g))
              [] ch("a") \/ ch("A") -> Quiet(shooter_rotate_camera(g, 0 - 1))
              [] ch("d") \/ ch("D") -> Quiet(shooter_rotate_camera(g, 1))
              [] ch("r") /\ ~g.alive -> Quiet(shooter_restart(g))
              [] OTHER -> Quiet(g)

ShooterState_handle_tick(g, rnds) == tick_internal(g, rnds)

(* The heading in the arithmetic of the build.  An f32 between a sixteenth
   of a turn step and two turns is a whole number of 2^-26, so headings
   and turn steps are carried as integers in that unit: TAU is
   6.2831855 = 421657440 * 2^-26 and TURN_STEP = TAU / 48.0 is
   0.1308997 = 8784530 * 2^-26.  A sum is rounded to the 24 bits an f32
   keeps, ties to even; `%` keeps the sign of the dividend and is exact. *)

TAU_F32 == 421657440
TURN_STEP_F32 == 8784530
F32_MANTISSA == 16777216

\* the distance between neighbouring f32 values at the size of n >= 0
RECURSIVE f32_ulp_from(_, _)
f32_ulp_from(n, u) ==
    IF n < F32_MANTISSA * u THEN u ELSE f32_ulp_from(n, 2 * u)
f32_ulp(n) == f32_ulp_from(n, 1)

\* the f32 nearest to n
f32_round(n) ==
    LET a == IF n < 0 THEN 0 - n ELSE n
        u == f32_ulp(a)
        q == a \div u
        r == a % u
        up == 2 * r > u \/ (2 * r = u /\ q % 2 = 1)
        m == (IF up THEN q + 1 ELSE q) * u
    IN IF n < 0 THEN 0 - m ELSE m

\* a % b of two floats
f32_rem(a, b) == IF a >= 0 THEN a % b ELSE 0 - ((0 - a) % b)

\* rotate_camera, on the fields it reads and writes
rotate_camera_f32(g, delta) ==
    IF ~g.alive THEN g
    ELSE LET h == f32_rem(f32_round(g.heading + delta), TAU_F32)
         IN [g EXCEPT !.heading = IF h < 0 THEN f32_round(h + TAU_F32)
                                  ELSE h]

\* The shooter as far as its heading goes: new, handle_event,
\* handle_failure and restart on `alive` and `heading`.
TurnState_new == [kind |-> GameKind_Shooter, alive |-> TRUE, heading |-> 0]
TurnState_restart(g) == [g EXCEPT !.alive = TRUE, !.heading = 0]
TurnState_handle_failure(g) == [g EXCEPT !.alive = FALSE]
TurnState_handle_event(g, event) ==
    LET key == event.key
        ch(c) == key.code = "Char" /\ key.ch = c
    IN IF event.type # "Key" THEN g
       ELSE CASE IsLeft(key) -> rotate_camera_f32(g, 0 - TURN_STEP_F32)
              [] IsRight(key) -> rotate_camera_f32(g, TURN_STEP_F32)
              [] ch(" ") \/ key.code = "Enter" ->
                   IF g.alive THEN g ELSE TurnState_restart(g)
              [] ch("a") \/ ch("A") -> rotate_camera_f32(g, 0 - TURN_STEP_F32)
              [] ch("d") \/ ch("D") -> rotate_camera_f32(g, TURN_STEP_F32)
              [] ch("r") /\ ~g.alive -> TurnState_restart(g)
              [] OTHER -> g

ShooterState_after(g, d) ==
    LET g1 == [g EXCEPT !.last_fire =
                 IF IsSome(@) THEN Some(Min(Unwrap(@) + d, FIRE_FLASH_MS))
                 ELSE @]
    IN IF ~g.alive THEN g1
       ELSE [g1 EXCEPT !.start_time = @ + d,
                       !.last_tick = @ + d,
                       !.last_spawn = @ + d,
                       !.reloading_until =
                          IF IsSome(@) THEN Some(saturating_sub(Unwrap(@), d))
                          ELSE @]

(* ChimpTestState (chimp_test.rs).  `start` of the reveal phase is carried
   as the time since it, saturating at REVEAL.  The shuffled cells the
   tiles are laid on are given by the caller. *)

CHIMP_GRID == 10
BASE_NUMBERS == 4
REVEAL == 2000
GameKind_ChimpTest == 5

Reveal(start) == [tag |-> "Reveal", start |-> start]
ChimpInput == [tag |-> "Input", start |-> 0]
ChimpResult == [tag |-> "Result", start |-> 0]

generate_tiles(g, positions) ==
    LET count == Min(BASE_NUMBERS + g.level, CHIMP_GRID * CHIMP_GRID)
    IN [g EXCEPT !.tiles = [v \in 1 .. count |->
                              [value |-> v, pos |-> positions[v],
                               cleared |-> FALSE]],
                 !.next_value = 1,
                 !.numbers_hidden = FALSE,
                 !.phase = Reveal(0),
                 !.nav = VimMotionState_clear(@)]

ChimpTestState_new(positions) ==
    generate_tiles(
        [kind |-> GameKind_ChimpTest, tiles |-> <<>>, cursor |-> <<0, 0>>,
         next_value |-> 1, level |-> 1, best |-> 0, phase |-> Reveal(0),
         numbers_hidden |-> FALSE, nav |-> VimMotionState_default],
        positions)

\* a selection that leaves the parser as it is
select_keeps_nav(g, positions) ==
    IF g.phase.tag # "Input" THEN Quiet(g)
    ELSE Quiet([g EXCEPT !.phase = ChimpResult, !.level = 1])

select(g, positions) ==
    IF g.phase.tag # "Input" THEN Quiet(g)
    ELSE LET g1 == [g EXCEPT !.nav = VimMotionState_clear(@)]
             at == {i \in 1 .. Len(g1.tiles) : g1.tiles[i].pos = g1.cursor}
         IN IF at = {} THEN Quiet(g1)
            ELSE LET idx == CHOOSE i \in at : \A j \in at : i <= j
                     value == g1.tiles[idx].value
                 IN IF value = g1.next_value
                    THEN LET g2 == [g1 EXCEPT
                                      !.tiles[idx].cleared = TRUE,
                                      !.next_value = @ + 1,
                                      !.numbers_hidden =
                                          IF value = 1 THEN TRUE ELSE @]
                         IN IF \A i \in 1 .. Len(g2.tiles) : g2.tiles[i].cleared
                            THEN LET g3 == [g2 EXCEPT !.level = @ + 1]
                                 IN IF g3.level > g3.best
                                    THEN [state |->
                                            generate_tiles(
                                              [g3 EXCEPT !.best = g3.level],
                                              positions),
                                          action |->
                                            Record(g3.level, GameKind_ChimpTest)]
                                    ELSE Quiet(generate_tiles(g3, positions))
                            ELSE Quiet(g2)
                    ELSE Quiet([g1 EXCEPT !.phase = ChimpResult, !.level = 1])

ChimpTestState_handle_event(g, event, positions) ==
    LET key == event.key
        r == nav_handle_key(g.nav, key, g.cursor, CHIMP_GRID, CHIMP_GRID)
        g1 == [g EXCEPT !.nav = r.nav, !.cursor = r.cursor]
    IN IF event.type # "Key" THEN Quiet(g)
       ELSE IF r.handled THEN Quiet(g1)
       ELSE CASE key.code = "Enter" ->
                   IF g1.phase.tag = "Result"
                   THEN Quiet(generate_tiles([g1 EXCEPT !.level = 1], positions))
                   ELSE select(g1, positions)
              [] key.code = "Char" /\ key.ch = " " -> select(g1, positions)
              [] key.code = "Esc" ->
                   Quiet([g1 EXCEPT !.nav = VimMotionState_clear(@)])
              [] OTHER -> Quiet(g1)

ChimpTestState_handle_tick(g) ==
    IF g.phase.tag = "Reveal" /\ g.phase.start >= REVEAL
    THEN Quiet([g EXCEPT !.phase = ChimpInput])
    ELSE Quiet(g)

ChimpTestState_after(g, d) ==
    IF g.phase.tag = "Reveal"
    THEN [g EXCEPT !.phase.start = Min(@ + d, REVEAL)]
    ELSE g

----------------------------------------------------------------------------
(* The environment: which events arrive and how time passes *)

RECURSIVE Prefixes(_)
Prefixes(s) ==
    IF s = <<>> THEN {<<>>} ELSE {s} \cup Prefixes(SubSeq(s, 1, Len(s) - 1))

PrefixesOf(texts) == UNION {Prefixes(t) : t \in texts}

Recorded(st) ==
    LET RECURSIVE Sum(_)
        Sum(ks) == IF ks = {} THEN 0
                   ELSE LET k == CHOOSE x \in ks : TRUE
                        IN Len(st[k]) + Sum(ks \ {k})
    IN Sum(DOMAIN st)

\* The texts typed into the palette: every command verb, an unknown
\* command, and a command and an empty line with surrounding blanks.
CommandTexts ==
    { <<"q", "a">>, <<"q", "u", "i", "t", "a", "l", "l">>,
      <<"m", "e", "n", "u">>, <<"r", "e", "s", "t", "a", "r", "t">>,
      <<"h", "e", "l", "p">>, <<"b", "o", "g", "u", "s">>,
      <<" ", "q", " ">> }

EnterTexts ==
    { <<>>, <<" ">>, <<"q">>, <<"q", "a">>, <<"q", "u", "i", "t">>,
      <<"q", "u", "i", "t", "a", "l", "l">>, <<"m", "e", "n", "u">>,
      <<"r", "e", "s", "t", "a", "r", "t">>, <<"h", "e", "l", "p">>,
      <<"b", "o", "g", "u", "s">>, <<" ", "q", " ">> }

Shift == {"SHIFT"}

\* Dispatch explored in full, time in coarse jumps.
AppEnv ==
    [ closed |-> {Key("Esc"), Key("Enter"), Key("Up"), Key("Down"), Key("Tab"),
                  Char(":"), CharMod(":", Shift), Char("j"), Char("k"),
                  Char("l"), Char("h"), Char("x")},
      open   |-> {Key("Esc"), Key("Backspace"), Key("Tab"), Char("^A")},
      texts  |-> CommandTexts,
      enter  |-> EnterTexts,
      other  |-> {OtherEvent},
      waits  |-> {0, TOAST_MS},
      deltas |-> {TOAST_MS},
      work   |-> {0},
      scores |-> {MaxScore},
      recorded |-> 1 ]

\* Timing explored in half tick periods, with the keys that raise no toast.
LoopEnv ==
    [ closed |-> {Key("Esc"), Key("Down"), Char(":"), Char("x")},
      open   |-> {Key("Esc"), Key("Backspace")},
      texts  |-> {<<"q", "a">>},
      enter  |-> {<<>>, <<"q">>, <<"q", "a">>},
      other  |-> {OtherEvent},
      waits  |-> {0, TICK_RATE \div 2, TICK_RATE},
      deltas |-> {TICK_RATE \div 2},
      work   |-> {0, TICK_RATE \div 2},
      scores |-> {MaxScore},
      recorded |-> 1 ]

\* The histories followed over several records of differing scores, with
\* the keys that launch and leave a game.
StatsEnv ==
    [ closed |-> {Key("Enter"), Key("Down"), Char(":"), Char("x")},
      open   |-> {Key("Esc")},
      texts  |-> {<<"q">>},
      enter  |-> {<<"q">>},
      other  |-> {OtherEvent},
      waits  |-> {0, TOAST_MS},
      deltas |-> {TOAST_MS},
      work   |-> {0},
      scores |-> 0 .. MaxScore,
      recorded |-> MaxRecorded ]

\* The events that may arrive in the current state.
Offered(E) ==
    IF IsSome(command)
    THEN LET buf == Unwrap(command)
             typed == {t[Len(buf) + 1] :
                         t \in {p \in PrefixesOf(E.texts) :
                                  /\ Len(p) = Len(buf) + 1
                                  /\ SubSeq(p, 1, Len(buf)) = buf}}
         IN {KeyEvent(k) : k \in E.open} \cup {KeyEvent(Char(c)) : c \in typed}
              \cup (IF buf \in E.enter THEN {KeyEvent(Key("Enter"))} ELSE {})
              \cup E.other
    ELSE {KeyEvent(k) : k \in E.closed} \cup E.other

\* What the active game may do with a call in the current state.
Outcomes(E) ==
    IF IsSome(active)
    THEN {o \in GameOutcomes(Unwrap(active)) :
            o.action.type = "Record" =>
                /\ o.action.record \in E.scores
                /\ Recorded(stats) < E.recorded}
    ELSE {NoOutcome}

----------------------------------------------------------------------------
(* App::run *)

SetApp(app) ==
    /\ menu' = app.menu
    /\ active' = app.active
    /\ stats' = app.stats
    /\ should_quit' = app.should_quit
    /\ toast' = app.toast
    /\ command' = app.command
    /\ show_help' = app.show_help

NoDelivery == [event |-> NoEvent, to |-> {}, ran |-> None]

AppInit ==
    /\ menu = 0
    /\ active = None
    /\ stats = [k \in Kinds |-> <<>>]
    /\ should_quit = FALSE
    /\ toast = None
    /\ command = None
    /\ show_help = FALSE
    /\ pc = "draw"
    /\ elapsed = 0
    /\ timeout = 0
    /\ iter = <<>>
    /\ delivered = NoDelivery
    /\ returned = None

\* No grid game has been constructed.
NavIdle ==
    /\ nav = VimMotionState_default
    /\ cursor = <<0, 0>>
    /\ grid = [width |-> 0, height |-> 0]
    /\ keyed = NoKeyed

\* No game module is followed on its own.
GameIdle == game = NoGame

Init == AppInit /\ NavIdle /\ GameIdle

\* while !should_quit { terminal.draw(..); timeout = ..
Draw ==
    /\ pc = "draw"
    /\ ~should_quit
    /\ timeout' = PollTimeout(elapsed)
    /\ iter' = <<"render">>
    /\ returned' = None
    /\ pc' = "poll"
    /\ UNCHANGED <<menu, active, stats, should_quit, toast, command, show_help,
                   elapsed, delivered>>
    /\ UNCHANGED <<navvars, game>>

\* the loop condition fails: run returns
Exit ==
    /\ pc = "draw"
    /\ should_quit
    /\ pc' = "done"
    /\ UNCHANGED <<menu, active, stats, should_quit, toast, command, show_help,
                   elapsed, timeout, iter, delivered, returned>>
    /\ UNCHANGED <<navvars, game>>

\* event::poll(timeout) is true after w <= timeout: read and dispatch
PollEvent(E) ==
    /\ pc = "poll"
    /\ \E w \in E.waits, ev \in Offered(E), out \in Outcomes(E) :
          /\ w <= timeout
          /\ LET r == handle_event([App EXCEPT !.toast = ToastAfter(@, w)], ev, out)
             IN SetApp(r.app)
                /\ delivered' = [event |-> ev, to |-> r.to, ran |-> r.ran]
                /\ returned' = IF "game" \in r.to THEN Some(out.action)
                               ELSE None
          /\ elapsed' = Min(elapsed + w, ElapsedCap)
    /\ iter' = iter \o <<"poll", "event">>
    /\ timeout' = 0
    /\ pc' = "tick"
    /\ UNCHANGED <<navvars, game>>

\* event::poll(timeout) is false after w >= timeout
PollIdle(E) ==
    /\ pc = "poll"
    /\ \E w \in E.waits :
          /\ w >= timeout
          /\ toast' = ToastAfter(toast, w)
          /\ elapsed' = Min(elapsed + w, ElapsedCap)
    /\ iter' = iter \o <<"poll">>
    /\ timeout' = 0
    /\ pc' = "tick"
    /\ UNCHANGED <<menu, active, stats, should_quit, command, show_help,
                   delivered, returned>>
    /\ UNCHANGED <<navvars, game>>

\* last_tick.elapsed() >= TICK_RATE: on_tick, which takes d, then
\* last_tick = now
Tick(E) ==
    /\ pc = "tick"
    /\ tick_due(elapsed)
    /\ \E out \in Outcomes(E), d \in E.work :
          LET a == on_tick(App, out)
          IN SetApp([a EXCEPT !.toast = ToastAfter(@, d)])
             /\ returned' = IF IsSome(active) THEN Some(out.action) ELSE None
    /\ elapsed' = 0
    /\ iter' = iter \o <<"tick">>
    /\ delivered' = NoDelivery
    /\ pc' = "draw"
    /\ UNCHANGED timeout
    /\ UNCHANGED <<navvars, game>>

NoTick ==
    /\ pc = "tick"
    /\ ~tick_due(elapsed)
    /\ delivered' = NoDelivery
    /\ returned' = None
    /\ pc' = "draw"
    /\ UNCHANGED <<menu, active, stats, should_quit, toast, command, show_help,
                   elapsed, timeout, iter>>
    /\ UNCHANGED <<navvars, game>>

\* d milliseconds pass while the loop computes
Advance(E) ==
    /\ pc # "done"
    /\ \E d \in E.deltas :
          /\ elapsed' = Min(elapsed + d, ElapsedCap)
          /\ toast' = ToastAfter(toast, d)
    /\ UNCHANGED <<menu, active, stats, should_quit, command, show_help,
                   pc, timeout, iter, delivered, returned>>
    /\ UNCHANGED <<navvars, game>>

Next ==
    \/ Draw
    \/ Exit
    \/ PollEvent(AppEnv)
    \/ PollIdle(AppEnv)
    \/ Tick(AppEnv)
    \/ NoTick
    \/ Advance(AppEnv)

Spec == Init /\ [][Next]_vars

NextLoop ==
    \/ Draw
    \/ Exit
    \/ PollEvent(LoopEnv)
    \/ PollIdle(LoopEnv)
    \/ Tick(LoopEnv)
    \/ NoTick
    \/ Advance(LoopEnv)

SpecLoop == Init /\ [][NextLoop]_vars

NextStats ==
    \/ Draw
    \/ Exit
    \/ PollEvent(StatsEnv)
    \/ PollIdle(StatsEnv)
    \/ Tick(StatsEnv)
    \/ NoTick
    \/ Advance(StatsEnv)

SpecStats == Init /\ [][NextStats]_vars

\* The loop that keeps running while time advances: a step of the loop
\* that can be taken is taken (the poll returns within its timeout, the
\* handlers return), and the clock does not stand still for ever.
LoopStep ==
    \/ Draw
    \/ Exit
    \/ PollEvent(LoopEnv)
    \/ PollIdle(LoopEnv)
    \/ Tick(LoopEnv)
    \/ NoTick

SpecLoopLive ==
    /\ SpecLoop
    /\ WF_vars(LoopStep)
    /\ WF_vars(Advance(LoopEnv))

----------------------------------------------------------------------------
(* The motion parser under every key *)

\* The digits typed: 0, one that moves a few cells and one that reaches
\* the cap in three keys.
NavDigits == {"0", "2", "9"}

NavKeys ==
    {Char(d) : d \in NavDigits}
      \cup {Char("g"), Char("G"), Char("$"),
            Key("Left"), Key("Right"), Key("Up"), Key("Down"),
            Char("h"), Char("j"), Char("k"), Char("l"),
            Char("x"), Key("Esc")}

\* The cells of a grid; the cell a cursor is constructed at where the
\* grid has no extent.
Coordinates(extent) == 0 .. saturating_sub(extent, 1)

NavInit ==
    /\ AppInit
    /\ nav = VimMotionState_default
    /\ grid \in [width : 0 .. MaxExtent, height : 0 .. MaxExtent]
    /\ cursor \in Coordinates(grid.width) \X Coordinates(grid.height)
    /\ keyed = NoKeyed
    /\ GameIdle

\* nav.handle_key(key, &mut cursor, width, height)
PressKey ==
    /\ \E key \in NavKeys :
          LET r == nav_handle_key(nav, key, cursor, grid.width, grid.height)
          IN /\ nav' = r.nav
             /\ cursor' = r.cursor
             /\ keyed' = [key |-> key, handled |-> r.handled, was |-> nav]
    /\ UNCHANGED grid
    /\ UNCHANGED <<appvars, game>>

NextNav == PressKey

SpecNav == NavInit /\ [][NextNav]_vars

\* The parser on grids with cells, up to the widest a usize can name.  The
\* cursor starts in a corner and is followed while it is within MaxExtent
\* cells of an edge and the count pending is at most ten times that.
WideExtents == {1, 2, ISIZE_MAX, ISIZE_MAX + 1, ISIZE_MAX + 2, USIZE_MAX}

WideKeys ==
    {Char("2"), Char("g"), Char("G"), Char("$"),
     Char("h"), Char("j"), Char("k"), Char("l"), Char("x")}

NearEdge(at, extent) == at <= MaxExtent \/ at + MaxExtent >= extent - 1

WideInit ==
    /\ AppInit
    /\ nav = VimMotionState_default
    /\ grid \in [width : WideExtents, height : WideExtents]
    /\ cursor \in {0, grid.width - 1} \X {0, grid.height - 1}
    /\ keyed = NoKeyed
    /\ GameIdle

\* nav.handle_key(key, &mut cursor, width, height), where it returns
WidePress ==
    /\ \E key \in WideKeys :
          LET r == nav_handle_key(nav, key, cursor, grid.width, grid.height)
          IN /\ ~handle_key_panics(nav, key, grid.width, grid.height)
             /\ NearEdge(r.cursor[1], grid.width)
             /\ NearEdge(r.cursor[2], grid.height)
             /\ unwrap_or(r.nav.count, 0) <= 10 * MaxExtent
             /\ nav' = r.nav
             /\ cursor' = r.cursor
             /\ keyed' = [key |-> key, handled |-> r.handled, was |-> nav]
    /\ UNCHANGED grid
    /\ UNCHANGED <<appvars, game>>

NextWide == WidePress

SpecWide == WideInit /\ [][NextWide]_vars

----------------------------------------------------------------------------
(* The other modules behind the dispatcher *)

(* ReactionState (reaction.rs).  `start` of the waiting phase is carried as
   the time since it, saturating at MAX_DELAY_MS, the longest delay it is
   compared with; `start` of the go phase as the time since it.  The
   status line feeds the rendering only and is left out. *)

GameKind_Reaction == 0
MIN_DELAY_MS == 1200
MAX_DELAY_MS == 3200

ReactionPhase(name, since, delay) ==
    [tag |-> name, since |-> since, delay |-> delay]

ReactionState_new ==
    [kind |-> GameKind_Reaction, phase |-> ReactionPhase("Idle", 0, 0),
     last_result |-> None, best_ms |-> None]

start_wait(g, delay) == [g EXCEPT !.phase = ReactionPhase("Waiting", 0, delay)]

action_key(key) ==
    \/ key.code = "Enter"
    \/ key.code = "Char" /\ key.ch \in {" ", "h", "j", "k", "l"}

finish_attempt(g, duration) ==
    LET g1 == [g EXCEPT !.phase = ReactionPhase("Result", 0, 0)]
    IN IF IsSome(duration)
       THEN LET ms == Unwrap(duration)
                g2 == [g1 EXCEPT !.last_result = Some(ms)]
            IN IF (IF IsSome(g2.best_ms) THEN ms < Unwrap(g2.best_ms) ELSE TRUE)
               THEN [state |-> [g2 EXCEPT !.best_ms = Some(ms)],
                     action |-> Record(ms, GameKind_Reaction)]
               ELSE Quiet(g2)
       ELSE Quiet([g1 EXCEPT !.last_result = None])

ReactionState_handle_event(g, event, delay) ==
    LET key == event.key
    IN IF event.type # "Key" THEN Quiet(g)
       ELSE IF ~action_key(key) THEN Quiet(g)
       ELSE CASE g.phase.tag \in {"Idle", "Result"} ->
                   IF key.code = "Enter" \/ (key.code = "Char" /\ key.ch = " ")
                   THEN Quiet(start_wait(g, delay))
                   ELSE Quiet(g)
              [] g.phase.tag = "Waiting" -> finish_attempt(g, None)
              [] g.phase.tag = "Go" -> finish_attempt(g, Some(g.phase.since))

ReactionState_handle_tick(g) ==
    IF g.phase.tag = "Waiting" /\ g.phase.since >= g.phase.delay
    THEN Quiet([g EXCEPT !.phase = ReactionPhase("Go", 0, 0)])
    ELSE Quiet(g)

ReactionState_after(g, d) ==
    CASE g.phase.tag = "Waiting" ->
           [g EXCEPT !.phase.since = Min(@ + d, MAX_DELAY_MS)]
      [] g.phase.tag = "Go" -> [g EXCEPT !.phase.since = @ + d]
      [] OTHER -> g

(* AimTrainerState (aim.rs).  `spawn` is carried as the time since the
   target was placed, total_time in milliseconds, which orders the totals
   as their f64 values do.  run_start and the status line feed the
   rendering only and are left out. *)

GameKind_AimTrainer == 2
AIM_GRID == 16
TARGETS == 10

AimTrainerState_new(target) ==
    [kind |-> GameKind_AimTrainer,
     cursor |-> <<AIM_GRID \div 2, AIM_GRID \div 2>>, target |-> target,
     hits |-> 0, total_time |-> 0, spawn |-> 0, finished |-> FALSE,
     best_total_ms |-> None, pending_count |-> None]

\* for _ in 0..steps { one cell, or break where the cell does not change }
RECURSIVE aim_steps(_, _, _, _)
aim_steps(c, dx, dy, steps) ==
    IF steps = 0 THEN c
    ELSE LET n == <<clamp(c[1] + dx, 0, AIM_GRID - 1),
                    clamp(c[2] + dy, 0, AIM_GRID - 1)>>
         IN IF n = c THEN c ELSE aim_steps(n, dx, dy, steps - 1)

aim_move_steps(g, dx, dy) ==
    [g EXCEPT !.cursor = aim_steps(@, dx, dy,
                                   Min(unwrap_or(g.pending_count, 1), AIM_GRID)),
              !.pending_count = None]

tag(g, target) ==
    IF g.finished THEN Quiet(g)
    ELSE IF g.cursor = g.target
    THEN LET g1 == [g EXCEPT !.total_time = @ + g.spawn, !.hits = @ + 1]
         IN IF g1.hits = TARGETS
            THEN LET g2 == [g1 EXCEPT !.finished = TRUE]
                     total_ms == g2.total_time
                 IN IF (IF IsSome(g2.best_total_ms)
                        THEN total_ms < Unwrap(g2.best_total_ms) ELSE TRUE)
                    THEN [state |-> [g2 EXCEPT !.best_total_ms = Some(total_ms)],
                          action |-> Record(total_ms, GameKind_AimTrainer)]
                    ELSE Quiet(g2)
            ELSE Quiet([g1 EXCEPT !.target = target, !.spawn = 0])
    ELSE Quiet(g)

AimTrainerState_handle_event(g, event, target) ==
    LET key == event.key
    IN IF event.type # "Key" THEN Quiet(g)
       ELSE CASE key.code = "Char" /\ is_ascii_digit(key.ch) ->
                   IF to_digit(key.ch) = 0 /\ g.pending_count = None
                   THEN Quiet(g)
                   ELSE Quiet([g EXCEPT !.pending_count =
                                 Some(Min(unwrap_or(@, 0) * 10
                                            + to_digit(key.ch), 99))])
              [] IsLeft(key) -> Quiet(aim_move_steps(g, 0 - 1, 0))
              [] IsRight(key) -> Quiet(aim_move_steps(g, 1, 0))
              [] IsUp(key) -> Quiet(aim_move_steps(g, 0, 0 - 1))
              [] IsDown(key) -> Quiet(aim_move_steps(g, 0, 1))
              [] key.code = "Enter" \/ (key.code = "Char" /\ key.ch = " ") ->
                   tag([g EXCEPT !.pending_count = None], target)
              [] OTHER -> Quiet(g)

\* the tick charging the time since the target was placed
aim_tick_charges(g) == Quiet([g EXCEPT !.total_time = @ + g.spawn])

AimTrainerState_handle_tick(g) == Quiet(g)

AimTrainerState_after(g, d) ==
    IF g.finished THEN g ELSE [g EXCEPT !.spawn = @ + d]

(* NumberMemoryState (number_memory.rs).  The number and the input are
   sequences of digit characters; `since` of the reveal is carried as the
   time since it, saturating at REVEAL_TIME.  The status line is left
   out. *)

GameKind_NumberMemory == 3
REVEAL_TIME == 2000

NumberPhase(name, since) == [tag |-> name, since |-> since]

NumberMemoryState_new ==
    [kind |-> GameKind_NumberMemory, round |-> 1, best_round |-> 0,
     number |-> <<>>, input |-> <<>>, phase |-> NumberPhase("Ready", 0)]

\* the digits are the ones the generator gives, one for each of the round
build_number(g, digits) ==
    [g EXCEPT !.number = [i \in 1 .. g.round |-> digits[i]],
              !.phase = NumberPhase("Reveal", 0)]

handle_submission(g) ==
    IF g.input = g.number
    THEN LET g1 == [g EXCEPT !.round = @ + 1,
                             !.phase = NumberPhase("Result", 0),
                             !.input = <<>>]
         IN IF g1.round - 1 > g1.best_round
            THEN [state |-> [g1 EXCEPT !.best_round = g1.round - 1],
                  action |-> Record(g1.round - 1, GameKind_NumberMemory)]
            ELSE Quiet(g1)
    ELSE Quiet([g EXCEPT !.round = 1, !.phase = NumberPhase("Result", 0),
                         !.input = <<>>])

NumberMemoryState_handle_event(g, event, digits) ==
    LET key == event.key
        phase == g.phase.tag
    IN IF event.type # "Key" THEN Quiet(g)
       ELSE CASE phase \in {"Ready", "Result"} /\ key.code = "Enter" ->
                   Quiet(build_number(g, digits))
              [] phase = "Recall" /\ key.code = "Enter" -> handle_submission(g)
              [] phase = "Recall" /\ key.code = "Backspace" ->
                   Quiet([g EXCEPT !.input =
                            IF @ = <<>> THEN @ ELSE SubSeq(@, 1, Len(@) - 1)])
              [] phase = "Recall" /\ key.code = "Char"
                   /\ is_ascii_digit(key.ch) ->
                   Quiet([g EXCEPT !.input = Append(@, key.ch)])
              [] OTHER -> Quiet(g)

NumberMemoryState_handle_tick(g) ==
    IF g.phase.tag = "Reveal" /\ g.phase.since >= REVEAL_TIME
    THEN Quiet([g EXCEPT !.phase = NumberPhase("Recall", 0)])
    ELSE Quiet(g)

NumberMemoryState_after(g, d) ==
    IF g.phase.tag = "Reveal"
    THEN [g EXCEPT !.phase.since = Min(@ + d, REVEAL_TIME)]
    ELSE g

(* VisualMemoryState (visual_memory.rs).  The shuffled cells come from the
   generator; `since` of the reveal is carried as the time since it,
   saturating at VISUAL_REVEAL.  The status line is left out. *)

GameKind_VisualMemory == 6
VISUAL_GRID == 5
BASE_CELLS == 3
VISUAL_REVEAL == 2000

VisualPhase(name, since) == [tag |-> name, since |-> since]

\* the first BASE_CELLS + round of the shuffled cells
generate_pattern(g, cells) ==
    [g EXCEPT !.pattern = {cells[i] :
                             i \in 1 .. Min(BASE_CELLS + g.round, Len(cells))},
              !.guesses = {},
              !.phase = VisualPhase("Reveal", 0)]

VisualMemoryState_new(cells) ==
    generate_pattern(
        [kind |-> GameKind_VisualMemory, pattern |-> {}, guesses |-> {},
         cursor |-> <<0, 0>>, round |-> 1, best |-> 0, lives |-> 3,
         phase |-> VisualPhase("Reveal", 0)],
        cells)

visual_move_cursor(g, dx, dy) ==
    [g EXCEPT !.cursor = <<clamp(@[1] + dx, 0, VISUAL_GRID - 1),
                           clamp(@[2] + dy, 0, VISUAL_GRID - 1)>>]

toggle(g) ==
    IF g.phase.tag = "Recall"
    THEN [g EXCEPT !.guesses = IF g.cursor \in @ THEN @ \ {g.cursor}
                               ELSE @ \cup {g.cursor}]
    ELSE g

submit(g, cells) ==
    IF g.phase.tag # "Recall" THEN Quiet(g)
    ELSE IF g.guesses = g.pattern
    THEN LET g1 == [g EXCEPT !.round = @ + 1,
                             !.phase = VisualPhase("Result", 0)]
         IN IF g1.round - 1 > g1.best
            THEN LET g2 == [g1 EXCEPT !.best = g1.round - 1]
                 IN [state |-> generate_pattern(g2, cells),
                     action |-> Record(g2.best, GameKind_VisualMemory)]
            ELSE Quiet(generate_pattern(g1, cells))
    ELSE Quiet(generate_pattern(
                 [g EXCEPT !.lives = saturating_sub(@, 1), !.round = 1,
                           !.phase = VisualPhase("Result", 0)],
                 cells))

VisualMemoryState_handle_event(g, event, cells) ==
    LET key == event.key
    IN IF event.type # "Key" THEN Quiet(g)
       ELSE CASE IsLeft(key) -> Quiet(visual_move_cursor(g, 0 - 1, 0))
              [] IsRight(key) -> Quiet(visual_move_cursor(g, 1, 0))
              [] IsUp(key) -> Quiet(visual_move_cursor(g, 0, 0 - 1))
              [] IsDown(key) -> Quiet(visual_move_cursor(g, 0, 1))
              [] key.code = "Char" /\ key.ch = " " -> Quiet(toggle(g))
              [] key.code = "Enter" -> submit(g, cells)
              [] OTHER -> Quiet(g)

VisualMemoryState_handle_tick(g) ==
    IF g.phase.tag = "Reveal" /\ g.phase.since >= VISUAL_REVEAL
    THEN Quiet([g EXCEPT !.phase = VisualPhase("Recall", 0)])
    ELSE Quiet(g)

VisualMemoryState_after(g, d) ==
    IF g.phase.tag = "Reveal"
    THEN [g EXCEPT !.phase.since = Min(@ + d, VISUAL_REVEAL)]
    ELSE g

----------------------------------------------------------------------------
(* The game modules under their own keys, ticks and clocks *)

\* What the random number generator is asked for by one call.
NoRnd == [word |-> 1, cell |-> <<0, 0>>, spawns |-> <<>>, positions |-> <<>>,
          delay |-> 0, target |-> <<0, 0>>, digits |-> <<>>, cells |-> <<>>]

Words == 1 .. NumWords
SequenceCells == {<<x, 0>> : x \in 0 .. (NumCells - 1)}

\* Where an enemy is spawned: abreast of the player, two turn steps off
\* that, and straight ahead of the first heading, each at the nearest
\* distance.
SpawnChoices ==
    { [angle |-> a, distance |-> 8 * UNIT] : a \in {0, 2, TURNS \div 4} }

\* GameState::handle_event
GameState_handle_event(g, event, rnd) ==
    CASE g.kind = GameKind_Typing -> TypingState_handle_event(g, event)
      [] g.kind = GameKind_VerbalMemory ->
           VerbalMemoryState_handle_event(g, event, rnd.word)
      [] g.kind = GameKind_Sequence ->
           SequenceState_handle_event(g, event, rnd.cell)
      [] g.kind = GameKind_Shooter -> ShooterState_handle_event(g, event)
      [] g.kind = GameKind_ChimpTest ->
           ChimpTestState_handle_event(g, event, rnd.positions)
      [] g.kind = GameKind_Reaction ->
           ReactionState_handle_event(g, event, rnd.delay)
      [] g.kind = GameKind_AimTrainer ->
           AimTrainerState_handle_event(g, event, rnd.target)
      [] g.kind = GameKind_NumberMemory ->
           NumberMemoryState_handle_event(g, event, rnd.digits)
      [] g.kind = GameKind_VisualMemory ->
           VisualMemoryState_handle_event(g, event, rnd.cells)

\* GameState::handle_tick
GameState_handle_tick(g, rnd) ==
    CASE g.kind = GameKind_Typing -> TypingState_handle_tick(g)
      [] g.kind = GameKind_VerbalMemory -> VerbalMemoryState_handle_tick(g)
      [] g.kind = GameKind_Sequence -> SequenceState_handle_tick(g)
      [] g.kind = GameKind_Shooter -> ShooterState_handle_tick(g, rnd.spawns)
      [] g.kind = GameKind_ChimpTest -> ChimpTestState_handle_tick(g)
      [] g.kind = GameKind_Reaction -> ReactionState_handle_tick(g)
      [] g.kind = GameKind_AimTrainer -> AimTrainerState_handle_tick(g)
      [] g.kind = GameKind_NumberMemory -> NumberMemoryState_handle_tick(g)
      [] g.kind = GameKind_VisualMemory -> VisualMemoryState_handle_tick(g)

\* The shooter's clock advances by half the first spawn interval, the
\* typing clock by half a round, the sequence clock by either flash time,
\* the chimp test's clock by half the reveal time, as the clocks of the
\* number and the visual memory, the reaction clock by half the shortest
\* delay, the aim trainer's by a tick.
ShooterStep == BASE_SPAWN_MS \div 2
GameDeltas(g) ==
    CASE g.kind = GameKind_Typing -> {ROUND_DURATION \div 2}
      [] g.kind = GameKind_Sequence -> {FLASH_OFF, FLASH_ON}
      [] g.kind = GameKind_Shooter -> {ShooterStep}
      [] g.kind = GameKind_ChimpTest -> {REVEAL \div 2}
      [] g.kind = GameKind_Reaction -> {MIN_DELAY_MS \div 2}
      [] g.kind = GameKind_AimTrainer -> {TICK_RATE}
      [] g.kind = GameKind_NumberMemory -> {REVEAL_TIME \div 2}
      [] g.kind = GameKind_VisualMemory -> {VISUAL_REVEAL \div 2}
      [] OTHER -> {}

GameState_after(g, d) ==
    CASE g.kind = GameKind_Typing -> TypingState_after(g, d)
      [] g.kind = GameKind_Sequence -> SequenceState_after(g, d)
      [] g.kind = GameKind_Shooter -> ShooterState_after(g, d)
      [] g.kind = GameKind_ChimpTest -> ChimpTestState_after(g, d)
      [] g.kind = GameKind_Reaction -> ReactionState_after(g, d)
      [] g.kind = GameKind_AimTrainer -> AimTrainerState_after(g, d)
      [] g.kind = GameKind_NumberMemory -> NumberMemoryState_after(g, d)
      [] g.kind = GameKind_VisualMemory -> VisualMemoryState_after(g, d)
      [] OTHER -> g

GameEvents ==
    {OtherEvent} \cup
    { KeyEvent(k) : k \in
        {Char("a"), Char("^A"), Char(" "), Char("h"), Char("j"), Char("k"),
         Char("l"), Char("r"), Key("Backspace"), Key("Enter"), Key("Esc")} }

\* The keys the chimp test is given: of the motion grammar a digit, the
\* jumps and the moves along a row, and of its own keys the selections,
\* Escape and a key it has no use for.
ChimpEvents ==
    {OtherEvent} \cup
    { KeyEvent(k) : k \in
        {Char("9"), Char("g"), Char("G"), Char("$"), Char("h"), Char("l"),
         Char(" "), Char("x"), Key("Enter"), Key("Esc")} }

\* The keys the other modules are given: a digit, the moves along a row,
\* the selections, Backspace and a key they have no use for.
AimEvents ==
    {OtherEvent} \cup
    { KeyEvent(k) : k \in
        {Char("2"), Char("h"), Char("l"), Char("x"), Key("Enter")} }

NumberEvents ==
    {OtherEvent} \cup
    { KeyEvent(k) : k \in
        {Char("1"), Char("2"), Char("x"), Key("Backspace"), Key("Enter")} }

VisualEvents ==
    {OtherEvent} \cup
    { KeyEvent(k) : k \in
        {Char("h"), Char("l"), Char(" "), Char("x"), Key("Enter")} }

GameEventsOf(g) ==
    CASE g.kind = GameKind_ChimpTest -> ChimpEvents
      [] g.kind = GameKind_AimTrainer -> AimEvents
      [] g.kind = GameKind_NumberMemory -> NumberEvents
      [] g.kind = GameKind_VisualMemory -> VisualEvents
      [] OTHER -> GameEvents

\* The shuffles of the chimp test's cells: along the top row from the
\* left, and along it from the right.
ChimpLayouts ==
    { [v \in 1 .. CHIMP_GRID |-> <<v - 1, 0>>],
      [v \in 1 .. CHIMP_GRID |-> <<CHIMP_GRID - v, 0>>] }

\* The targets of the aim trainer: under the first cursor and next to it.
AimTargets ==
    { <<AIM_GRID \div 2, AIM_GRID \div 2>>,
      <<AIM_GRID \div 2 + 1, AIM_GRID \div 2>> }

\* The shuffles of the visual memory's cells: row after row from the
\* left, and row after row from the right.
VisualLayouts ==
    { [i \in 1 .. VISUAL_GRID * VISUAL_GRID |->
         <<(i - 1) % VISUAL_GRID, (i - 1) \div VISUAL_GRID>>],
      [i \in 1 .. VISUAL_GRID * VISUAL_GRID |->
         <<VISUAL_GRID - 1 - ((i - 1) % VISUAL_GRID),
           (i - 1) \div VISUAL_GRID>>] }

EventRnds(g) ==
    CASE g.kind = GameKind_VerbalMemory ->
           {[NoRnd EXCEPT !.word = w] : w \in Words}
      [] g.kind = GameKind_Sequence ->
           {[NoRnd EXCEPT !.cell = c] : c \in SequenceCells}
      [] g.kind = GameKind_ChimpTest ->
           {[NoRnd EXCEPT !.positions = p] : p \in ChimpLayouts}
      [] g.kind = GameKind_Reaction ->
           {[NoRnd EXCEPT !.delay = d] : d \in {MIN_DELAY_MS, MAX_DELAY_MS}}
      [] g.kind = GameKind_AimTrainer ->
           {[NoRnd EXCEPT !.target = t] : t \in AimTargets}
      [] g.kind = GameKind_NumberMemory ->
           {[NoRnd EXCEPT !.digits = ds] : ds \in [1 .. g.round -> {"1", "2"}]}
      [] g.kind = GameKind_VisualMemory ->
           {[NoRnd EXCEPT !.cells = c] : c \in VisualLayouts}
      [] OTHER -> {NoRnd}

TickRnds(g) ==
    IF g.kind = GameKind_Shooter /\ g.alive
    THEN {[NoRnd EXCEPT !.spawns = s] :
            s \in [1 .. spawns_due(g) -> SpawnChoices]}
    ELSE {NoRnd}

\* The application ticks the shooter at least once every clock step.
Ticked(g) == g.kind = GameKind_Shooter => g.last_tick <= ShooterStep

\* The states within the bounds of the model.
InBounds(g) ==
    CASE g.kind = GameKind_Typing -> g.typed_len <= MaxTyped
      [] g.kind = GameKind_VerbalMemory -> g.score <= MaxVerbalScore
      [] g.kind = GameKind_Sequence -> Len(g.sequence) <= MaxSequence
      [] g.kind = GameKind_Shooter ->
           /\ Len(g.enemies) <= MaxEnemies
           /\ g.kills <= MaxKills
           /\ g.start_time <= MaxRunSteps * ShooterStep
           /\ g.heading <= MaxHeading
      [] g.kind = GameKind_ChimpTest -> g.level <= MaxLevel
      [] g.kind = GameKind_Reaction -> g.phase.since <= MAX_DELAY_MS
      [] g.kind = GameKind_AimTrainer -> g.spawn <= TICK_RATE
      [] g.kind = GameKind_NumberMemory ->
           g.round <= MaxDigits /\ Len(g.input) <= MaxDigits
      [] g.kind = GameKind_VisualMemory -> g.round <= MaxLevel

GamesInit ==
    /\ AppInit
    /\ NavIdle
    /\ game \in {TypingState_new, ShooterState_new}
                  \cup {VerbalMemoryState_new(w) : w \in Words}
                  \cup {SequenceState_new(c) : c \in SequenceCells}

\* game.handle_event(&event)
GameEvent ==
    /\ \E event \in GameEventsOf(game), rnd \in EventRnds(game) :
          LET out == GameState_handle_event(game, event, rnd)
          IN /\ InBounds(out.state)
             /\ game' = out.state
             /\ returned' = Some(out.action)
             /\ delivered' = [event |-> event, to |-> {"game"}, ran |-> None]
    /\ UNCHANGED <<loopvars, navvars>>

\* game.handle_tick(Instant::now())
GameTick ==
    /\ \E rnd \in TickRnds(game) :
          LET out == GameState_handle_tick(game, rnd)
          IN /\ InBounds(out.state)
             /\ game' = out.state
             /\ returned' = Some(out.action)
             /\ delivered' = [event |-> NoEvent, to |-> {"game"}, ran |-> None]
    /\ UNCHANGED <<loopvars, navvars>>

\* Time passes between two calls.
GamePass ==
    /\ \E d \in GameDeltas(game) :
          /\ InBounds(GameState_after(game, d))
          /\ Ticked(GameState_after(game, d))
          /\ game' = GameState_after(game, d)
    /\ returned' = None
    /\ delivered' = NoDelivery
    /\ UNCHANGED <<loopvars, navvars>>

NextGames ==
    \/ GameEvent
    \/ GameTick
    \/ GamePass

SpecGames == GamesInit /\ [][NextGames]_vars

\* the constructors of the two memory games with digits crossed
GameState_new_crossed(kind, rnd) ==
    CASE kind = GameKind_NumberMemory -> VisualMemoryState_new(rnd.cells)
      [] kind = GameKind_VisualMemory -> NumberMemoryState_new
      [] kind = GameKind_Reaction -> ReactionState_new
      [] kind = GameKind_Sequence -> SequenceState_new(rnd.cell)
      [] kind = GameKind_AimTrainer -> AimTrainerState_new(rnd.target)
      [] kind = GameKind_VerbalMemory -> VerbalMemoryState_new(rnd.word)
      [] kind = GameKind_ChimpTest -> ChimpTestState_new(rnd.positions)
      [] kind = GameKind_Typing -> TypingState_new

\* GameState::new: the module of the kind in its first state
GameState_new_of(kind, rnd) ==
    CASE kind = GameKind_Reaction -> ReactionState_new
      [] kind = GameKind_Sequence -> SequenceState_new(rnd.cell)
      [] kind = GameKind_AimTrainer -> AimTrainerState_new(rnd.target)
      [] kind = GameKind_NumberMemory -> NumberMemoryState_new
      [] kind = GameKind_VerbalMemory -> VerbalMemoryState_new(rnd.word)
      [] kind = GameKind_ChimpTest -> ChimpTestState_new(rnd.positions)
      [] kind = GameKind_VisualMemory -> VisualMemoryState_new(rnd.cells)
      [] kind = GameKind_Typing -> TypingState_new

GameKinds ==
    {GameKind_Reaction, GameKind_Sequence, GameKind_AimTrainer,
     GameKind_NumberMemory, GameKind_VerbalMemory, GameKind_ChimpTest,
     GameKind_VisualMemory, GameKind_Typing}

\* What the generator may give a module at its construction.
NewRnds(kind) ==
    CASE kind = GameKind_Sequence ->
           {[NoRnd EXCEPT !.cell = c] : c \in SequenceCells}
      [] kind = GameKind_AimTrainer ->
           {[NoRnd EXCEPT !.target = t] : t \in AimTargets}
      [] kind = GameKind_VerbalMemory ->
           {[NoRnd EXCEPT !.word = w] : w \in Words}
      [] kind = GameKind_ChimpTest ->
           {[NoRnd EXCEPT !.positions = p] : p \in ChimpLayouts}
      [] kind = GameKind_VisualMemory ->
           {[NoRnd EXCEPT !.cells = c] : c \in VisualLayouts}
      [] OTHER -> {NoRnd}

\* Every module of the dispatcher from its construction.
DispatchInit ==
    /\ AppInit
    /\ NavIdle
    /\ \E k \in GameKinds : game \in {GameState_new_of(k, rnd) : rnd \in NewRnds(k)}

SpecDispatch == DispatchInit /\ [][NextGames]_vars

\* The chimp test from its construction.
ChimpInit ==
    /\ AppInit
    /\ NavIdle
    /\ game \in {ChimpTestState_new(p) : p \in ChimpLayouts}

SpecChimp == ChimpInit /\ [][NextGames]_vars

\* The shooter from its construction.
ShooterInit ==
    /\ AppInit
    /\ NavIdle
    /\ game = ShooterState_new

SpecShooter == ShooterInit /\ [][NextGames]_vars

\* The histories from what was persisted.  App::default drains what it
\* loads down to HISTORY_LIMIT records; the records loaded are numbered
\* from MaxScore + 1 on in their order, apart from the scores the games
\* then report.
drain_overflow(history) ==
    IF Len(history) > HISTORY_LIMIT
    THEN SubSeq(history, Len(history) - HISTORY_LIMIT + 1, Len(history))
    ELSE history

Persisted ==
    { [i \in 1 .. n |-> MaxScore + i] :
        n \in {0, HISTORY_LIMIT - 1, HISTORY_LIMIT, HISTORY_LIMIT + 2} }

\* the records of the histories that the games have reported since the start
Reported(histories) ==
    Cardinality({ki \in Kinds \X (0 .. MaxRecorded) :
                   /\ ki[2] < Len(histories[ki[1]])
                   /\ histories[ki[1]][Len(histories[ki[1]]) - ki[2]] <= MaxScore})

HistoryInit ==
    /\ \E loaded \in [Kinds -> Persisted] :
          stats = [k \in Kinds |-> drain_overflow(loaded[k])]
    /\ menu = 0
    /\ active = None
    /\ should_quit = FALSE
    /\ toast = None
    /\ command = None
    /\ show_help = FALSE
    /\ pc = "draw"
    /\ elapsed = 0
    /\ timeout = 0
    /\ iter = <<>>
    /\ delivered = NoDelivery
    /\ returned = None
    /\ NavIdle
    /\ GameIdle

\* self.handle_game_action(action) with the record of a run
HistoryRecord ==
    /\ Reported(stats) < MaxRecorded
    /\ \E k \in Kinds, r \in 0 .. MaxScore :
          /\ stats' = handle_game_action(App, Record(r, k)).stats
          /\ returned' = Some(Record(r, k))
    /\ UNCHANGED <<menu, active, should_quit, toast, command, show_help,
                   pc, elapsed, timeout, iter, delivered>>
    /\ UNCHANGED <<navvars, game>>

NextHistory == HistoryRecord

SpecHistory == HistoryInit /\ [][NextHistory]_vars

\* The shooter behind slow frames: any number of clock steps may pass
\* between two ticks.  The random number generator holds more places than
\* the field has room for enemies, the same place again and again or one
\* place and then another, so that it is the loop of maybe_spawn that
\* decides how many of them are taken.
SpawnStreams ==
    { [i \in 1 .. (MaxEnemies + 1) |-> IF i = 1 THEN c ELSE d] :
        c \in SpawnChoices, d \in SpawnChoices }

\* game.handle_tick(Instant::now())
LagTick ==
    /\ \E s \in SpawnStreams :
          LET out == GameState_handle_tick(game, [NoRnd EXCEPT !.spawns = s])
          IN /\ InBounds(out.state)
             /\ game' = out.state
             /\ returned' = Some(out.action)
             /\ delivered' = [event |-> NoEvent, to |-> {"game"}, ran |-> None]
    /\ UNCHANGED <<loopvars, navvars>>

\* Time passes between two calls, however long since the last tick.
LagPass ==
    /\ \E d \in GameDeltas(game) :
          /\ InBounds(GameState_after(game, d))
          /\ game' = GameState_after(game, d)
    /\ returned' = None
    /\ delivered' = NoDelivery
    /\ UNCHANGED <<loopvars, navvars>>

\* game.handle_event(&event) with the fire key, whose kills shorten the
\* spawn interval
LagFire ==
    /\ LET event == KeyEvent(Char(" "))
           out == GameState_handle_event(game, event, NoRnd)
       IN /\ InBounds(out.state)
          /\ game' = out.state
          /\ returned' = Some(out.action)
          /\ delivered' = [event |-> event, to |-> {"game"}, ran |-> None]
    /\ UNCHANGED <<loopvars, navvars>>

NextLag ==
    \/ LagFire
    \/ LagTick
    \/ LagPass

SpecLag == ShooterInit /\ [][NextLag]_vars

\* The shooter's heading under turn keys.  The rounding of the sums lets
\* the heading stray from a whole number of turn steps; the model follows
\* it as far as MaxDrift units of 2^-26.
heading_drift(h) ==
    LET k == (2 * h + TURN_STEP_F32) \div (2 * TURN_STEP_F32)
        d == h - k * TURN_STEP_F32
    IN IF d < 0 THEN 0 - d ELSE d

TurnEvents ==
    { KeyEvent(k) : k \in {Char("h"), Char("l"), Char("r"), Char(" ")} }

TurnInit ==
    /\ AppInit
    /\ NavIdle
    /\ game = TurnState_new

\* game.handle_event(&event)
TurnEvent ==
    /\ \E event \in TurnEvents :
          LET out == TurnState_handle_event(game, event)
          IN /\ heading_drift(out.heading) <= MaxDrift
             /\ game' = out
             /\ returned' = Some(NoAction)
             /\ delivered' = [event |-> event, to |-> {"game"}, ran |-> None]
    /\ UNCHANGED <<loopvars, navvars>>

\* game.handle_tick(Instant::now()) at which an enemy reaches the player
TurnFailure ==
    /\ game.alive
    /\ game' = TurnState_handle_failure(game)
    /\ returned' = Some(NoAction)
    /\ delivered' = [event |-> NoEvent, to |-> {"game"}, ran |-> None]
    /\ UNCHANGED <<loopvars, navvars>>

NextTurn ==
    \/ TurnEvent
    \/ TurnFailure

SpecTurn == TurnInit /\ [][NextTurn]_vars

\* The shooter in a field of enemies.  Every tick puts each enemy on the
\* line through the player (Enemy::update), and the player is alive only
\* while none is closer than CLOSE_THRESHOLD, so the enemies stand ahead of
\* or behind the first heading, here just outside the threshold, at 4 and
\* at 8 units ahead and at 4 units behind.  An enemy spawned after the
\* first kill is faster by one ENEMY_SPEED_STEP.
FieldEnemies ==
    { [pos |-> [x |-> 0, y |-> y], speed |-> ENEMY_BASE_SPEED] :
        y \in {CLOSE_THRESHOLD + 10, 4 * UNIT, 8 * UNIT, 0 - 4 * UNIT} }
    \cup { [pos |-> [x |-> 0, y |-> 4 * UNIT],
            speed |-> ENEMY_BASE_SPEED + ENEMY_SPEED_STEP] }

FieldStates ==
    { [ShooterState_new EXCEPT !.enemies = es, !.kills = 1,
                               !.start_time = 2 * BASE_SPAWN_MS]
        : es \in UNION { [1 .. n -> FieldEnemies] : n \in 0 .. MaxField } }

FieldEvents ==
    { KeyEvent(k) : k \in {Char(" "), Char("h"), Char("l"), Key("Enter")} }

FieldInit ==
    /\ AppInit
    /\ NavIdle
    /\ game \in FieldStates

\* game.handle_event(&event), with the player turning all the way round
FieldEvent ==
    /\ \E event \in FieldEvents :
          LET out == ShooterState_handle_event(game, event)
          IN /\ game' = out.state
             /\ returned' = Some(out.action)
             /\ delivered' = [event |-> event, to |-> {"game"}, ran |-> None]
    /\ UNCHANGED <<loopvars, navvars>>

NextField == FieldEvent

SpecField == FieldInit /\ [][NextField]_vars

----------------------------------------------------------------------------
(* Vocabulary of the properties *)

\* A step of the loop that reads one key event and dispatches it.
KeyDispatch == pc = "poll" /\ pc' = "tick" /\ delivered'.event.type = "Key"

\* The key that step dispatches.
PressedKey == delivered'.event.key

Message(t) == IF IsSome(t) THEN Some(Unwrap(t).message) ELSE None

\* The app without the passing of time: a toast is its message.
Visible(app) == [app EXCEPT !.toast = Message(@)]

\* The app apart from the palette.
BehindPalette(app) == [Visible(app) EXCEPT !.command = None]

IsColon(key) == key.code = "Char" /\ key.ch = ":" /\ key.mods = {}

----------------------------------------------------------------------------
(* Input dispatch *)

\* C1: while the command palette is open every key is handled by the
\* palette alone: it is given to no other handler and never moves the menu
\* selection; Escape closes the palette and changes nothing else; Enter
\* closes it and runs the trimmed buffer as a command; any other key leaves
\* the palette open and changes at most the buffer.
PaletteConsumesKeys ==
    [][ (KeyDispatch /\ IsSome(command)) =>
          /\ delivered'.to = {"palette"}
          /\ menu' = menu
          /\ PressedKey.code = "Esc" =>
                /\ command' = None
                /\ delivered'.ran = None
                /\ BehindPalette(App)' = BehindPalette(App)
          /\ PressedKey.code = "Enter" =>
                /\ command' = None
                /\ delivered'.ran = Some(trim(Unwrap(command)))
                /\ Visible(App)' =
                     Visible(execute_command([App EXCEPT !.command = None],
                                             trim(Unwrap(command))))
          /\ PressedKey.code \notin {"Esc", "Enter"} =>
                /\ IsSome(command')
                /\ delivered'.ran = None
                /\ BehindPalette(App)' = BehindPalette(App)
      ]_vars

\* C1 witness: Enter in the open palette ran a command over an active game.
PaletteEnterSeen ==
    /\ pc = "tick"
    /\ delivered.to = {"palette"}
    /\ delivered.event.key.code = "Enter"
    /\ IsSome(delivered.ran)
    /\ command = None
    /\ IsSome(active)

\* C2: with the palette closed an unmodified ':' opens the palette with an
\* empty buffer, is given neither to the game nor to the menu, and changes
\* nothing else, with or without an active game.
ColonOpensPalette ==
    [][ (KeyDispatch /\ ~IsSome(command) /\ IsColon(PressedKey)) =>
          /\ command' = Some(<<>>)
          /\ delivered'.to = {"open"}
          /\ BehindPalette(App)' = BehindPalette(App)
      ]_vars

\* C2 witness: the palette was just opened over an active game that had
\* already changed state.
ColonOverGameSeen ==
    /\ pc = "tick"
    /\ delivered.to = {"open"}
    /\ command = Some(<<>>)
    /\ IsSome(active)
    /\ Unwrap(active).steps > 0

\* C3: with the palette closed a key other than an unmodified ':' is given
\* to the active game when there is one (the menu and the palette are not
\* touched) and to the menu otherwise, never to both; and no step taken
\* while a game is active changes the menu selection.
KeysGoToGameOrMenu ==
    [][ /\ (KeyDispatch /\ ~IsSome(command) /\ ~IsColon(PressedKey)) =>
            IF IsSome(active)
            THEN /\ delivered'.to = {"game"}
                 /\ command' = None
                 /\ show_help' = show_help /\ should_quit' = should_quit
                 /\ Message(toast') = Message(toast)
                 /\ IsSome(active')
            ELSE /\ delivered'.to = {"menu"}
                 /\ Visible(App)' = Visible(handle_menu_key(App, PressedKey))
                 /\ stats' = stats
        /\ IsSome(active) => menu' = menu
      ]_vars

\* C3 witness: a ':' with a modifier went to the active game.
ModifiedColonToGameSeen ==
    /\ pc = "tick"
    /\ delivered.to = {"game"}
    /\ delivered.event.key = CharMod(":", Shift)
    /\ IsSome(active)
    /\ menu # 0

----------------------------------------------------------------------------
(* Commands *)

\* The text between the first and the last character of s that is not a
\* blank.
Core(s) ==
    LET inked == {i \in 1 .. Len(s) : s[i] # " "}
    IN IF inked = {} THEN <<>>
       ELSE SubSeq(s, CHOOSE i \in inked : \A j \in inked : i <= j,
                      CHOOSE i \in inked : \A j \in inked : i >= j)

\* A step that dispatches Enter to the open palette.
EnterInPalette == KeyDispatch /\ IsSome(command) /\ PressedKey.code = "Enter"

\* The command that step enters.
Entered == Core(Unwrap(command))

QuitAllVerbs == {<<"q", "a">>, <<"q", "u", "i", "t", "a", "l", "l">>}
QuitRunVerbs == {<<"q">>, <<"q", "u", "i", "t">>}
MenuVerb == <<"m", "e", "n", "u">>
RestartVerb == <<"r", "e", "s", "t", "a", "r", "t">>
HelpVerb == <<"h", "e", "l", "p">>
Verbs == QuitAllVerbs \cup QuitRunVerbs \cup {MenuVerb, RestartVerb, HelpVerb}

RECURSIVE TypeKeys(_, _, _)
TypeKeys(app, keys, out) ==
    IF keys = <<>> THEN app
    ELSE TypeKeys(handle_key(app, Head(keys), out).app, Tail(keys), out)

AnyOutcome ==
    IF IsSome(active) THEN GameOutcomes(Unwrap(active)) ELSE {NoOutcome}

\* C4: from any state with the palette closed the keys ':', 'q', 'a', Enter
\* set should_quit, whatever game is active; entering "qa" sets it; and
\* once it is set it stays set and the loop neither renders nor polls nor
\* dispatches again: at the loop head it can only leave.
QuitAllEndsRun ==
    /\ [](~IsSome(command) =>
            \A out \in AnyOutcome :
               TypeKeys(App, <<Char(":"), Char("q"), Char("a"), Key("Enter")>>,
                        out).should_quit)
    /\ [][ /\ (EnterInPalette /\ Entered \in QuitAllVerbs) => should_quit'
           /\ should_quit =>
                /\ should_quit'
                /\ iter' \in {iter, iter \o <<"tick">>}
                /\ command' = command
                /\ pc = "draw" => pc' \in {"draw", "done"}
                /\ pc = "done" => pc' = "done"
       ]_vars

\* C4 witness: run has returned with a game still active, which only the
\* quit-all command brings about.
QuitAllOverGameSeen ==
    /\ pc = "done"
    /\ should_quit
    /\ IsSome(active)

\* C5: entering a non-empty text that is no command sets the toast to
\* "Unknown command :" followed by the text and, the palette closing
\* aside, changes nothing else: active game, menu selection, help flag,
\* statistics and should_quit stay.
UnknownCommandOnlyToasts ==
    [][ (EnterInPalette /\ Entered # <<>> /\ Entered \notin Verbs) =>
          /\ toast' = Some(Toast_new(<<"Unknown command :">> \o Entered))
          /\ command' = None
          /\ active' = active
          /\ menu' = menu
          /\ show_help' = show_help
          /\ should_quit' = should_quit
          /\ stats' = stats
      ]_vars

\* C5 witness: ":bogus" was entered over an active game that had played.
BogusOverGameSeen ==
    /\ pc = "tick"
    /\ delivered.ran = Some(<<"b", "o", "g", "u", "s">>)
    /\ IsSome(toast)
    /\ Unwrap(toast).message = <<"Unknown command :", "b", "o", "g", "u", "s">>
    /\ IsSome(active)
    /\ Unwrap(active).steps > 0

\* C6: ":q" and ":quit" leave the game and do not quit when a game is
\* active, and set should_quit when none is; ":menu" always leaves no game
\* active and never sets should_quit.
QuitRunLeavesGameOrQuits ==
    [][ /\ (EnterInPalette /\ Entered \in QuitRunVerbs) =>
            IF IsSome(active)
            THEN active' = None /\ should_quit' = should_quit
            ELSE active' = None /\ should_quit'
        /\ (EnterInPalette /\ Entered = MenuVerb) =>
            active' = None /\ should_quit' = should_quit
      ]_vars

\* C6 witness: ":q" over an active game came back to the menu, not quitting.
QuitRunOverGameSeen ==
    /\ pc = "tick"
    /\ delivered.ran = Some(<<"q">>)
    /\ active = None
    /\ ~should_quit
    /\ Message(toast) = Some(<<"Returned to menu">>)

\* C7: ":restart" over an active game of kind k leaves a game of kind k in
\* its constructed state; with no game active it creates none and, the
\* palette closing aside, changes nothing.
RestartRebuildsGame ==
    [][ (EnterInPalette /\ Entered = RestartVerb) =>
          IF IsSome(active)
          THEN active' = Some(GameState_new(Unwrap(active).kind))
          ELSE /\ active' = None
               /\ command' = None
               /\ BehindPalette(App)' = BehindPalette(App)
      ]_vars

\* C7 witness: a game of the second kind was just restarted.
RestartSeen ==
    /\ pc = "tick"
    /\ delivered.ran = Some(RestartVerb)
    /\ active = Some(GameState_new(1))
    /\ Message(toast) = Some(<<"Restarted ", title(1)>>)

\* C8: Enter on a buffer that is empty or all blanks closes the palette and
\* changes nothing else: active game, menu selection, toast, help flag,
\* statistics and should_quit stay.
EmptyCommandIsNoOp ==
    [][ (EnterInPalette /\ Entered = <<>>) =>
          /\ command' = None
          /\ BehindPalette(App)' = BehindPalette(App)
      ]_vars

\* C8 witness: a line of one blank was entered over a standing toast, an
\* active game and a recorded score.
BlankLineSeen ==
    /\ pc = "tick"
    /\ delivered.event.key.code = "Enter"
    /\ delivered.ran = Some(<<>>)
    /\ command = None
    /\ IsSome(toast)
    /\ IsSome(active)
    /\ Recorded(stats) > 0

----------------------------------------------------------------------------
(* The run loop *)

\* C9: every loop iteration is one render, then one poll, then the
\* dispatch of at most one event, then at most one tick; the tick is
\* performed exactly when at least TICK_RATE has elapsed since the last
\* tick boundary, and the boundary is reset with it (and only with it).
IterationShape ==
    /\ [](/\ pc = "poll" => iter = <<"render">>
          /\ pc = "tick" => iter \in {<<"render", "poll">>,
                                      <<"render", "poll", "event">>}
          /\ pc \in {"draw", "done"} =>
                iter \in {<<>>,
                          <<"render", "poll">>,
                          <<"render", "poll", "event">>,
                          <<"render", "poll", "tick">>,
                          <<"render", "poll", "event", "tick">>})
    /\ [][ (pc = "tick" /\ pc' # "tick") =>
             /\ pc' = "draw"
             /\ IF elapsed >= TICK_RATE
                THEN iter' = iter \o <<"tick">> /\ elapsed' = 0
                ELSE iter' = iter /\ elapsed' = elapsed
       ]_vars

\* C9 witness: an iteration that rendered, polled, dispatched an event and
\* ticked has just ended with the boundary reset.
FullIterationSeen ==
    /\ pc = "draw"
    /\ iter = <<"render", "poll", "event", "tick">>
    /\ elapsed = 0

\* C10: the poll timeout is always within [0, TICK_RATE]; when it is
\* computed it is TICK_RATE minus the time elapsed since the last tick
\* boundary if that is not negative, and 0 otherwise.
PollTimeoutClamped ==
    /\ [](timeout \in 0 .. TICK_RATE)
    /\ [][ (pc = "draw" /\ pc' = "poll") =>
             IF elapsed <= TICK_RATE
             THEN timeout' + elapsed = TICK_RATE
             ELSE timeout' = 0
       ]_vars

\* C10 witness: a poll is about to wait for the rest of a tick period that
\* has partly passed.
PartialTimeoutSeen ==
    /\ pc = "poll"
    /\ timeout > 0
    /\ timeout < TICK_RATE
    /\ timeout + elapsed = TICK_RATE

----------------------------------------------------------------------------
(* Ticks and statistics *)

\* A step of the loop that performs on_tick.
TickStep == pc = "tick" /\ pc' = "draw" /\ iter' = iter \o <<"tick">>

\* A step of the loop that reads one event and dispatches it.
EventStep == pc = "poll" /\ pc' = "tick" /\ iter' = iter \o <<"poll", "event">>

\* C11: a tick removes the toast whose deadline has passed (and no other)
\* and is forwarded to the active game exactly when there is one, which
\* stays active with its kind; a Record(record, kind) returned by a game
\* call, for an event or for a tick, is appended at the end of the history
\* of that kind and no other history changes; a call returning no effect,
\* and a step that dispatches neither an event nor a tick, leave the
\* statistics as they are.
TickAndRecordsMerged ==
    [][ /\ TickStep =>
             /\ IF IsSome(toast) /\ Unwrap(toast).age > TOAST_MS
                THEN toast' = None
                ELSE Message(toast') = Message(toast)
             /\ IsSome(returned') <=> IsSome(active)
             /\ IsSome(active') <=> IsSome(active)
             /\ IsSome(active) => Unwrap(active').kind = Unwrap(active).kind
        /\ (EventStep \/ TickStep) =>
             /\ \A k \in Kinds, r \in 0 .. MaxScore :
                  returned' = Some(Record(r, k)) =>
                     /\ IsSome(active) /\ Unwrap(active).kind = k
                     /\ stats' = [stats EXCEPT ![k] = Append(@, r)]
             /\ returned' \in {None, Some(NoAction)} => stats' = stats
        /\ ~(EventStep \/ TickStep) => stats' = stats
      ]_vars

\* C11 witness: a tick has just removed an expired toast and appended the
\* record its game returned behind an earlier, different record of the
\* second kind.
RecordOnTickSeen ==
    /\ pc = "draw"
    /\ iter # <<>> /\ iter[Len(iter)] = "tick"
    /\ returned = Some(Record(MaxScore, 1))
    /\ stats[1] = <<0, MaxScore>>
    /\ toast = None
    /\ IsSome(active)

----------------------------------------------------------------------------
(* The active game *)

IsLaunchKey(key) ==
    key.code = "Enter" \/ (key.code = "Char" /\ key.ch = "l")

\* C12: at every moment no game is active or exactly one is, of one of the
\* kinds; a game becomes active only by Enter or 'l' given to the menu with
\* the palette closed, and it is then the freshly constructed game of the
\* selected kind; while a game is active it is replaced only by ":restart"
\* (by a fresh game of its kind) and otherwise changes only through its own
\* handling of an event or a tick, keeping its kind; it stops being active
\* only by ":q", ":quit" or ":menu", never by an event or tick it handles.
OneGameFromMenuUntilLeft ==
    /\ [](\/ active = None
          \/ /\ Len(active) = 1
             /\ Unwrap(active).kind \in Kinds)
    /\ [][ /\ (active = None /\ IsSome(active')) =>
               /\ KeyDispatch
               /\ command = None
               /\ IsLaunchKey(PressedKey)
               /\ delivered'.to = {"menu"}
               /\ active' = Some(GameState_new(MenuState_selected_kind(menu)))
           /\ (IsSome(active) /\ IsSome(active') /\ active' # active) =>
               \/ /\ EnterInPalette /\ Entered = RestartVerb
                  /\ active' = Some(GameState_new(Unwrap(active).kind))
               \/ /\ (EventStep /\ delivered'.to = {"game"}) \/ TickStep
                  /\ IsSome(returned')
                  /\ Unwrap(active').kind = Unwrap(active).kind
           /\ (IsSome(active) /\ active' = None) =>
               /\ EnterInPalette
               /\ Entered \in QuitRunVerbs \cup {MenuVerb}
           /\ (IsSome(active) /\ IsSome(returned')
                 /\ ((EventStep /\ delivered'.to = {"game"}) \/ TickStep)) =>
               IsSome(active')
       ]_vars

\* C12 witness: 'l' at the menu has just launched the game of a kind other
\* than the first, after an earlier game had recorded a score and was left.
LaunchedByKeySeen ==
    /\ pc = "tick"
    /\ delivered.to = {"menu"}
    /\ delivered.event.key = Char("l")
    /\ menu # 0
    /\ active = Some(GameState_new(menu))
    /\ Recorded(stats) > 0

----------------------------------------------------------------------------
(* The motion parser *)

\* The key the parser is given in this step (read in an action).
NavKey == keyed'.key

IsDigitKey(key) ==
    key.code = "Char"
      /\ key.ch \in {"0", "1", "2", "3", "4", "5", "6", "7", "8", "9"}

DigitOf(key) ==
    CHOOSE d \in 0 .. 9 :
        key.ch = <<"0", "1", "2", "3", "4", "5", "6", "7", "8", "9">>[d + 1]

\* The pending count, 0 when there is none.
Pending(state) == IF state.count = None THEN 0 ELSE state.count[1]

\* C14: a digit key other than a 0 with no count pending is consumed, does
\* not move the cursor, and leaves the count min(10 * previous + digit,
\* 999) pending, previous being 0 when none was; and a pending count is
\* always between 1 and 999.
DigitAccumulates ==
    /\ [](nav.count # None => nav.count[1] \in 1 .. 999)
    /\ [][ (IsDigitKey(NavKey) /\ ~(NavKey.ch = "0" /\ nav.count = None)) =>
             /\ keyed'.handled
             /\ cursor' = cursor
             /\ nav'.count # None
             /\ nav'.count[1] = Min(10 * Pending(nav) + DigitOf(NavKey), 999)
       ]_vars

\* C14 witness: a digit typed after the count had reached 999 left it at
\* 999, the cursor away from the origin.
CountCappedSeen ==
    /\ keyed.key = Char("2")
    /\ keyed.handled
    /\ keyed.was.count = Some(999)
    /\ nav.count = Some(999)
    /\ cursor[1] > 0 /\ cursor[2] > 0

\* C15: a '0' with no count pending puts the cursor in column 0 of its
\* row and leaves no count pending; a '0' with the count n pending leaves
\* the count min(10 * n, 999) pending and the cursor where it is.
ZeroJumpsOrAppends ==
    [][ NavKey = Char("0") =>
          IF nav.count = None
          THEN /\ cursor' = <<0, cursor[2]>>
               /\ nav'.count = None
          ELSE /\ nav'.count = Some(Min(10 * nav.count[1], 999))
               /\ cursor' = cursor
      ]_vars

\* C15 witness: a '0' typed after a 2 has made the count 20 and left the
\* cursor in a column other than the first.
ZeroAppendedSeen ==
    /\ keyed.key = Char("0")
    /\ keyed.was.count = Some(2)
    /\ nav.count = Some(20)
    /\ cursor[1] > 0

\* The parser's answer to the key of this step had no 'g' been pending.
OwnAction ==
    nav_handle_key([nav EXCEPT !.pending_g = FALSE], NavKey, cursor,
                   grid.width, grid.height)

\* C16 as stated: a 'g' given while a 'g' is pending puts the cursor in
\* row 0 of its column and leaves neither a count nor a 'g' pending; any
\* other key given while a 'g' is pending does what it does on its own,
\* clears the pending 'g', and never brings the cursor to row 0.
GThenKeyNeverReachesRowZero ==
    [][ /\ (NavKey = Char("g") /\ nav.pending_g) =>
             /\ cursor' = <<cursor[1], 0>>
             /\ nav' = [count |-> None, pending_g |-> FALSE]
        /\ (NavKey # Char("g") /\ nav.pending_g) =>
             /\ cursor' = OwnAction.cursor
             /\ nav' = OwnAction.nav
             /\ ~nav'.pending_g
             /\ cursor[2] # 0 => cursor'[2] # 0
      ]_vars

\* C16: a 'g' is pending only just after a 'g' key; the first 'g' of a
\* pair only sets the flag; the second puts the cursor in row 0 of its
\* column and leaves neither a count nor a 'g' pending; any other key given
\* while a 'g' is pending does exactly what it does with none pending and
\* clears the flag, so that it brings the cursor to row 0 only where it is
\* itself a move up.
GPairJumpsElseOwnAction ==
    /\ [](nav.pending_g =>
            /\ keyed.key = Char("g")
            /\ keyed.handled
            /\ ~keyed.was.pending_g)
    /\ [][ /\ (NavKey = Char("g") /\ ~nav.pending_g) =>
                /\ cursor' = cursor
                /\ nav' = [nav EXCEPT !.pending_g = TRUE]
           /\ (NavKey = Char("g") /\ nav.pending_g) =>
                /\ cursor' = <<cursor[1], 0>>
                /\ nav' = [count |-> None, pending_g |-> FALSE]
           /\ (NavKey # Char("g") /\ nav.pending_g) =>
                /\ cursor' = OwnAction.cursor
                /\ nav' = OwnAction.nav
                /\ keyed'.handled = OwnAction.handled
                /\ ~nav'.pending_g
                /\ (cursor[2] # 0 /\ cursor'[2] = 0) => IsUp(NavKey)
       ]_vars

\* C16 witness: the second 'g' of a pair, given with a count pending, has
\* just brought the cursor to row 0 of a column other than the first and
\* left nothing pending.
GPairSeen ==
    /\ keyed.key = Char("g")
    /\ keyed.handled
    /\ keyed.was = [count |-> Some(2), pending_g |-> TRUE]
    /\ nav = [count |-> None, pending_g |-> FALSE]
    /\ cursor[1] > 0 /\ cursor[2] = 0
    /\ grid.height > 1

NonEmptyGrid == grid.width > 0 /\ grid.height > 0

\* C17: on a grid that is not empty 'G' puts the cursor in the last row of
\* its column and '$' in the last column of its row, whatever count is
\* pending, and both leave neither a count nor a 'g' pending.
JumpKeysGoToLastRowOrColumn ==
    [][ NonEmptyGrid =>
          /\ NavKey = Char("G") =>
                /\ cursor' = <<cursor[1], grid.height - 1>>
                /\ nav' = [count |-> None, pending_g |-> FALSE]
          /\ NavKey = Char("$") =>
                /\ cursor' = <<grid.width - 1, cursor[2]>>
                /\ nav' = [count |-> None, pending_g |-> FALSE]
      ]_vars

\* C17 witness: a 'G' given with the count 2 and a 'g' pending has brought
\* the cursor to the last row, which is not the second, in its column.
LastRowSeen ==
    /\ keyed.key = Char("G")
    /\ keyed.was = [count |-> Some(2), pending_g |-> TRUE]
    /\ nav = [count |-> None, pending_g |-> FALSE]
    /\ grid.height > 2
    /\ cursor[2] = grid.height - 1
    /\ cursor[1] > 0

IsDirection(key) == IsLeft(key) \/ IsRight(key) \/ IsUp(key) \/ IsDown(key)

\* The cells between the cursor c and the edge of the grid the key moves to.
Room(c, key) ==
    CASE IsLeft(key) -> c[1]
      [] IsRight(key) -> grid.width - 1 - c[1]
      [] IsUp(key) -> c[2]
      [] IsDown(key) -> grid.height - 1 - c[2]

\* The cell d cells from c in the direction of the key.
Along(c, key, d) ==
    CASE IsLeft(key) -> <<c[1] - d, c[2]>>
      [] IsRight(key) -> <<c[1] + d, c[2]>>
      [] IsUp(key) -> <<c[1], c[2] - d>>
      [] IsDown(key) -> <<c[1], c[2] + d>>

Max(a, b) == IF a > b THEN a ELSE b

\* C18: on a grid that is not empty an arrow or h/j/k/l moves the cursor
\* along its direction only, by the pending count (1 when there is none or
\* less) or by the cells left before the edge if they are fewer, never
\* around the edge; afterwards neither a count nor a 'g' is pending.
DirectionMovesCountCells ==
    [][ (NonEmptyGrid /\ IsDirection(NavKey)) =>
          /\ cursor' = Along(cursor, NavKey,
                             Min(Max(Pending(nav), 1), Room(cursor, NavKey)))
          /\ nav' = [count |-> None, pending_g |-> FALSE]
          /\ keyed'.handled
      ]_vars

\* C18 witness: an 'l' given with the count 2 pending has moved the cursor
\* two columns, short of the last.
CountedMoveSeen ==
    /\ keyed.key = Char("l")
    /\ keyed.was.count = Some(2)
    /\ nav.count = None
    /\ cursor[1] = 2
    /\ grid.width > 3

\* The parser and the cursor after the keys, given in turn.
RECURSIVE TypeNav(_, _, _)
TypeNav(state, c, keys) ==
    IF keys = <<>> THEN [nav |-> state, cursor |-> c]
    ELSE LET r == nav_handle_key(state, Head(keys), c, grid.width, grid.height)
         IN TypeNav(r.nav, r.cursor, Tail(keys))

\* The runs of digit keys, and the number each run writes.
DigitTexts == UNION {[1 .. n -> NavDigits] : n \in 1 .. MaxDigits}

RECURSIVE DecimalValue(_)
DecimalValue(ds) ==
    IF ds = <<>> THEN 0
    ELSE 10 * DecimalValue(SubSeq(ds, 1, Len(ds) - 1)) + DigitOf(Char(ds[Len(ds)]))

DirectionKeys == {key \in NavKeys : IsDirection(key)}

\* The grid's extent along the direction of the key.
Extent(key) == IF IsLeft(key) \/ IsRight(key) THEN grid.width ELSE grid.height

\* The cursor after the digits ds and then the direction key dir, given to
\* the current parser.
AfterCount(ds, dir) ==
    TypeNav(nav, cursor, [i \in 1 .. Len(ds) |-> Char(ds[i])] \o <<dir>>)

\* Where a run of digits starts counting from: a leading 0, given with no
\* count pending, first goes to column 0.
CountStart(ds) == IF ds[1] = "0" THEN <<0, cursor[2]>> ELSE cursor

\* A parser with no count pending, as first reached: each such parser,
\* cursor and grid is reached this way from a constructed parser by one key.
NoCountPending == nav.count = None /\ keyed.was = VimMotionState_default

\* C19 as stated: after any run of digit keys and then a direction key the
\* cursor has moved min(accumulated count, extent of the grid along the
\* direction) cells.
CountMovesUpToExtent ==
    (NoCountPending /\ NonEmptyGrid) =>
        \A ds \in DigitTexts, dir \in DirectionKeys :
            AfterCount(ds, dir).cursor =
                Along(CountStart(ds), dir,
                      Min(Min(DecimalValue(ds), 999), Extent(dir)))

\* C19: after any run of digit keys and then a direction key, given with
\* no count pending on a grid that is not empty, the cursor has moved, from
\* where the run left it, by the number the digits write (at most 999, and
\* 1 where they write 0) or by the cells left before the edge if they are
\* fewer, and no count is pending.
CountMovesUpToEdge ==
    (NoCountPending /\ NonEmptyGrid) =>
        \A ds \in DigitTexts, dir \in DirectionKeys :
            /\ AfterCount(ds, dir).cursor =
                  Along(CountStart(ds), dir,
                        Min(Max(Min(DecimalValue(ds), 999), 1),
                            Room(CountStart(ds), dir)))
            /\ AfterCount(ds, dir).nav = VimMotionState_default

\* C19 witness: Down given with the count 999 pending has stopped the
\* cursor in the last row, below the first.
CountStoppedAtEdgeSeen ==
    /\ keyed.key = Key("Down")
    /\ keyed.was.count = Some(999)
    /\ nav.count = None
    /\ grid.height > 1
    /\ cursor[2] = grid.height - 1

\* A key outside the grammar of the parser.
IsOtherKey(key) ==
    /\ ~IsDigitKey(key)
    /\ ~IsDirection(key)
    /\ ~(key.code = "Char" /\ key.ch \in {"g", "G", "$"})

\* C20: a key outside the grammar is reported as not handled, leaves the
\* cursor and the pending count as they are, and clears the pending 'g'.
OtherKeyOnlyClearsG ==
    [][ IsOtherKey(NavKey) =>
          /\ ~keyed'.handled
          /\ cursor' = cursor
          /\ nav'.count = nav.count
          /\ ~nav'.pending_g
      ]_vars

\* C20 witness: an 'x' given with the count 2 and a 'g' pending was not
\* handled and has left the count pending and no 'g'.
OtherKeySeen ==
    /\ keyed.key = Char("x")
    /\ ~keyed.handled
    /\ keyed.was = [count |-> Some(2), pending_g |-> TRUE]
    /\ nav = [count |-> Some(2), pending_g |-> FALSE]
    /\ cursor # <<0, 0>>

----------------------------------------------------------------------------
(* Records of the game modules *)

\* A step that calls the module's handle_event or handle_tick.
GameEventCall == IsSome(returned') /\ delivered'.event.type # "None"
GameTickCall == IsSome(returned') /\ delivered'.event.type = "None"
GameCall == GameEventCall \/ GameTickCall

\* The record the call of this step returned, if it returned one.
RecordReturned == IsSome(returned') /\ Unwrap(returned').type = "Record"
RecordOf(score, kind) == returned' = Some(Record(score, kind))

\* The key of an event call is one that starts a run or a round again.
IsRestartKey(key) ==
    \/ key.code = "Enter"
    \/ key.code = "Char" /\ key.ch \in {" ", "r"}

\* C13: a call of a module returns a record only at a completion of its
\* own.  Typing: only the call that ends the running round, Enter or the
\* tick that finds the round's time used up, returns a record, and once
\* the round has ended every key and tick returns none and the round stays
\* ended until Enter starts another.  Shooter: only the tick at which the
\* run dies returns a record, of the time survived, and while the player
\* is down every call returns none until a restart key starts another run.
\* Sequence and verbal memory: a record is the pending best, which that
\* call takes, so that it is given once.
OneRecordPerCompletion ==
    [][ GameCall =>
          /\ game.kind = GameKind_Typing =>
               /\ RecordReturned =>
                    /\ IsSome(game.started)
                    /\ ~IsSome(game.finished)
                    /\ IsSome(game'.finished)
                    /\ RecordOf(game'.wpm_best, GameKind_Typing)
                    /\ \/ GameEventCall /\ delivered'.event.key = Key("Enter")
                       \/ GameTickCall /\ Unwrap(game.started) >= ROUND_DURATION
               /\ IsSome(game.finished) =>
                    /\ returned' = Some(NoAction)
                    /\ \/ game' = game
                       \/ /\ GameEventCall
                          /\ delivered'.event.key = Key("Enter")
                          /\ game' = TypingState_restart(game)
          /\ game.kind = GameKind_Shooter =>
               /\ RecordReturned =>
                    /\ GameTickCall
                    /\ game.alive
                    /\ ~game'.alive
                    /\ game'.frozen_elapsed = Some(game.start_time)
                    /\ RecordOf(game.start_time, GameKind_Shooter)
               /\ ~game.alive =>
                    /\ returned' = Some(NoAction)
                    /\ game'.alive =>
                         /\ GameEventCall
                         /\ IsRestartKey(delivered'.event.key)
          /\ (game.kind \in {GameKind_Sequence, GameKind_VerbalMemory}
                 /\ RecordReturned) =>
                    /\ GameEventCall
                    /\ IsSome(game.pending_best)
                    /\ RecordOf(Unwrap(game.pending_best), game.kind)
                    /\ game'.pending_best = None
      ]_vars

\* A typing round the timer ended has just reported its record.
RoundEndedByTimerSeen ==
    /\ game.kind = GameKind_Typing
    /\ game.finished = Some(ROUND_DURATION)
    /\ delivered.event.type = "None"
    /\ IsSome(returned)
    /\ Unwrap(returned).type = "Record"

----------------------------------------------------------------------------
(* The motion parser inside the chimp test *)

\* A step that gives the chimp test a key outside the motion grammar.
ChimpOtherKey ==
    /\ GameEventCall
    /\ game.kind = GameKind_ChimpTest
    /\ delivered'.event.type = "Key"
    /\ IsOtherKey(delivered'.event.key)

\* The key clears the parser: Escape, Enter unless the tiles are still
\* being revealed, and the space bar while the tiles are being selected.
ChimpClearingKey ==
    LET key == delivered'.event.key
    IN \/ key.code = "Esc"
       \/ key.code = "Enter" /\ game.phase.tag \in {"Input", "Result"}
       \/ key = Char(" ") /\ game.phase.tag = "Input"

\* C21 as stated: after the chimp test has handled a key outside the motion
\* grammar, neither a count nor a 'g' is pending.
ParserClearedByEveryOtherKey ==
    [][ ChimpOtherKey => game'.nav = VimMotionState_default ]_vars

\* C21: after the chimp test has handled a key outside the motion grammar
\* no 'g' is pending and the cursor is where it was; the pending count is
\* cleared by Escape and by a selection the phase accepts, and is kept by
\* every other such key.
ParserClearedByEscapeAndSelection ==
    [][ ChimpOtherKey =>
          /\ ~game'.nav.pending_g
          /\ game'.cursor = game.cursor
          /\ game'.nav.count =
                IF ChimpClearingKey THEN None ELSE game.nav.count
      ]_vars

\* A key the chimp test has no use for has left a count pending.
CountKeptAfterOtherKeySeen ==
    /\ game.kind = GameKind_ChimpTest
    /\ delivered.event.key = Char("x")
    /\ IsSome(returned)
    /\ IsSome(game.nav.count)

----------------------------------------------------------------------------
(* The motion parser on a grid without cells *)

ZeroGrid == grid.width = 0 \/ grid.height = 0

\* C22 as stated: on a grid of no width or no height handle_key does not
\* panic and reports every key as not handled.
ZeroGridKeysUnhandled ==
    [][ ZeroGrid =>
          /\ ~handle_key_panics(nav, NavKey, grid.width, grid.height)
          /\ ~keyed'.handled
      ]_vars

\* C22: on a grid of no width or no height handle_key does not panic,
\* whatever the key and the parser, and reports the key as handled exactly
\* when it belongs to the motion grammar, as on any other grid.
ZeroGridNeverPanics ==
    [][ ZeroGrid =>
          /\ ~handle_key_panics(nav, NavKey, grid.width, grid.height)
          /\ keyed'.handled <=> ~IsOtherKey(NavKey)
      ]_vars

\* A jump to the last row was asked for on a grid of no height, with a
\* count pending.
ZeroGridJumpSeen ==
    /\ grid.height = 0
    /\ keyed.key = Char("G")
    /\ keyed.handled
    /\ IsSome(keyed.was.count)

\* A key that asks for a motion: a direction, a 0 with no count pending, the
\* second of two 'g', 'G' and '$'.
IsMotionKey(state, key) ==
    \/ IsDirection(key)
    \/ key = Char("0") /\ state.count = None
    \/ key = Char("g") /\ state.pending_g
    \/ key = Char("G")
    \/ key = Char("$")

\* C23: on a grid of no width or no height a motion key changes neither
\* coordinate of the cursor and leaves no count pending.
ZeroGridMotionIsNoOp ==
    [][ (ZeroGrid /\ IsMotionKey(nav, NavKey)) =>
          /\ cursor' = cursor
          /\ nav'.count = None
      ]_vars

----------------------------------------------------------------------------
(* The shooter's magazine and its reload *)

\* The key of an event call is one that fires while the player is alive.
IsFireKey(key) ==
    \/ key.code = "Enter"
    \/ key.code = "Char" /\ key.ch = " "

\* A step that gives the shooter a fire key while the player is alive.
FireAttempt ==
    /\ GameEventCall
    /\ game.kind = GameKind_Shooter
    /\ game.alive
    /\ delivered'.event.type = "Key"
    /\ IsFireKey(delivered'.event.key)

\* A reload that has not reached its deadline keeps fire from shooting.
ReloadBlocks(g) == IsSome(g.reloading_until) /\ Unwrap(g.reloading_until) > 0

\* C24: the magazine holds between no round and MAG_CAPACITY rounds before
\* and after every step of the shooter.  A fire attempt takes exactly one
\* round when the magazine holds one and no reload blocks it, and takes
\* none otherwise; no other step takes a round, so the count never falls
\* below zero.
MagazineWithinCapacity ==
    [][ game.kind = GameKind_Shooter =>
          /\ game.shots_remaining \in 0 .. MAG_CAPACITY
          /\ game'.shots_remaining \in 0 .. MAG_CAPACITY
          /\ FireAttempt =>
                IF game.shots_remaining > 0 /\ ~ReloadBlocks(game)
                THEN game'.shots_remaining = game.shots_remaining - 1
                ELSE game'.shots_remaining = game.shots_remaining
          /\ game'.shots_remaining < game.shots_remaining => FireAttempt
      ]_vars

\* A fire key has just found the magazine empty and left it empty.
EmptyMagazineFireSeen ==
    /\ game.kind = GameKind_Shooter
    /\ game.alive
    /\ delivered.event.type = "Key"
    /\ IsFireKey(delivered.event.key)
    /\ game.shots_remaining = 0
    /\ game.reloading_until = Some(RELOAD_MS)

\* C25: a reload is pending exactly from a fire attempt on the empty
\* magazine until the magazine is full again.  While a reload is pending
\* the magazine holds no round; a reload comes to be pending, or is given
\* a new deadline, only by a fire attempt on the empty magazine; such an
\* attempt always leaves a reload pending; and a pending reload goes away
\* only in a step that leaves the magazine at MAG_CAPACITY.
ReloadOnlyAfterEmptyFire ==
    [][ game.kind = GameKind_Shooter =>
          /\ IsSome(game.reloading_until) => game.shots_remaining = 0
          /\ IsSome(game'.reloading_until) => game'.shots_remaining = 0
          /\ (FireAttempt /\ game.shots_remaining = 0) =>
                IsSome(game'.reloading_until)
          /\ (IsSome(game'.reloading_until)
                 /\ \/ ~IsSome(game.reloading_until)
                    \/ Unwrap(game'.reloading_until)
                          > Unwrap(game.reloading_until)) =>
                /\ FireAttempt
                /\ game.shots_remaining = 0
                /\ game'.reloading_until = Some(RELOAD_MS)
          /\ (IsSome(game.reloading_until)
                 /\ ~IsSome(game'.reloading_until)) =>
                game'.shots_remaining = MAG_CAPACITY
      ]_vars

\* A tick has just refilled the magazine at the end of a reload.
MagazineRefilledSeen ==
    /\ game.kind = GameKind_Shooter
    /\ game.alive
    /\ delivered.event.type = "None"
    /\ IsSome(returned)
    /\ IsSome(game.last_fire)
    /\ game.shots_remaining = MAG_CAPACITY
    /\ game.reloading_until = None

\* C26: while the player is alive a fire key on the empty magazine
\* destroys no enemy, shoots nothing and leaves a reload pending, started
\* by it with the whole of RELOAD_MS to go unless one is still running; a
\* fire key before the deadline of a pending reload changes neither the
\* magazine, the enemies, the kills, the deadline nor last_fire.
EmptyFireStartsReload ==
    [][ /\ (FireAttempt /\ game.shots_remaining = 0) =>
              /\ game'.enemies = game.enemies
              /\ game'.kills = game.kills
              /\ game'.shots_remaining = 0
              /\ game'.last_fire = game.last_fire
              /\ IsSome(game'.reloading_until)
              /\ ~ReloadBlocks(game) =>
                    game'.reloading_until = Some(RELOAD_MS)
        /\ (FireAttempt /\ ReloadBlocks(game)) =>
              /\ game'.shots_remaining = game.shots_remaining
              /\ game'.enemies = game.enemies
              /\ game'.kills = game.kills
              /\ game'.reloading_until = game.reloading_until
              /\ game'.last_fire = game.last_fire
      ]_vars

\* A fire key has just met a reload part of the way to its deadline, with
\* an enemy in the field.
FireDuringReloadSeen ==
    /\ game.kind = GameKind_Shooter
    /\ game.alive
    /\ delivered.event.type = "Key"
    /\ IsFireKey(delivered.event.key)
    /\ IsSome(game.reloading_until)
    /\ Unwrap(game.reloading_until) \in 1 .. (RELOAD_MS - 1)
    /\ game.enemies # <<>>

----------------------------------------------------------------------------
(* The shooter's hit detection *)

\* A fire attempt that shoots: a round is in the magazine and no reload
\* blocks it.
Shot == FireAttempt /\ game.shots_remaining > 0 /\ ~ReloadBlocks(game)

\* The i-th enemy as the camera sees it: x to the side, y ahead, both
\* scaled by UNIT.
Cam(i) == rotate_back(game.enemies[i].pos, game.heading)
Abs(n) == IF n < 0 THEN 0 - n ELSE n
Qualifies(i) ==
    /\ Cam(i).y > MIN_DEPTH * UNIT
    /\ Abs(Cam(i).x) <= HIT_WINDOW * UNIT

\* The list without its i-th element, in the order it had.
Without(s, i) ==
    [k \in 1 .. (Len(s) - 1) |-> IF k < i THEN s[k] ELSE s[k + 1]]

\* How often e occurs in the list.
Count(s, e) == Cardinality({k \in DOMAIN s : s[k] = e})
SameElements(s, t) ==
    /\ Len(s) = Len(t)
    /\ \A k \in DOMAIN s : Count(s, s[k]) = Count(t, s[k])

\* C27: a fire key removes an enemy only when it shoots and some enemy
\* qualifies: seen from the camera the enemy is more than MIN_DEPTH ahead
\* and at most HIT_WINDOW to either side.  The enemy removed is then the
\* qualifying one that is nearest ahead, the first of the list among
\* those equally near; the others all stay.  A shot with no qualifying
\* enemy, and a fire key that does not shoot, remove none.
NearestInSightsIsHit ==
    [][ FireAttempt =>
          LET hits == {i \in 1 .. Len(game.enemies) : Qualifies(i)}
          IN IF Shot /\ hits # {}
             THEN \E i \in hits :
                    /\ \A j \in hits : Cam(i).y <= Cam(j).y
                    /\ \A j \in hits : Cam(j).y = Cam(i).y => i <= j
                    /\ SameElements(game'.enemies, Without(game.enemies, i))
             ELSE game'.enemies = game.enemies
      ]_vars

\* A shot has just taken the slower of two enemies at the same depth,
\* which stood first, and left the faster one and a farther one.
TieHitSeen ==
    /\ game.kind = GameKind_Shooter
    /\ delivered.event.type = "Key"
    /\ IsFireKey(delivered.event.key)
    /\ game.last_fire = Some(0)
    /\ game.kills = 2
    /\ game.heading = 0
    /\ Len(game.enemies) = 2
    /\ \E k \in 1 .. 2 :
          game.enemies[k] = [pos |-> [x |-> 0, y |-> 4 * UNIT],
                             speed |-> ENEMY_BASE_SPEED + ENEMY_SPEED_STEP]
    /\ \E k \in 1 .. 2 : game.enemies[k].pos.y = 8 * UNIT

\* C28: a fire key removes no enemy or one; the kills grow by the number
\* removed; and every enemy that is not removed is in the list afterwards
\* as it was, position and speed.
AtMostOneKillPerShot ==
    [][ FireAttempt =>
          LET removed == Len(game.enemies) - Len(game'.enemies)
          IN /\ removed \in {0, 1}
             /\ game'.kills = game.kills + removed
             /\ removed = 0 => SameElements(game'.enemies, game.enemies)
             /\ removed = 1 =>
                   \E i \in 1 .. Len(game.enemies) :
                      SameElements(game'.enemies, Without(game.enemies, i))
      ]_vars

\* A shot has just taken one of three enemies and left the two others,
\* one behind the player and one farther ahead.
HitLeavesOthersSeen ==
    /\ game.kind = GameKind_Shooter
    /\ delivered.event.type = "Key"
    /\ IsFireKey(delivered.event.key)
    /\ game.last_fire = Some(0)
    /\ game.kills = 2
    /\ game.shots_remaining = MAG_CAPACITY - 1
    /\ Len(game.enemies) = 2
    /\ game.enemies[1].pos.y = 0 - 4 * UNIT
    /\ game.enemies[2].pos.y = 8 * UNIT

----------------------------------------------------------------------------
(* The end of the shooter's run *)

\* Some enemy of the state is closer to the player than CLOSE_THRESHOLD.
EnemyClose(g) ==
    \E i \in 1 .. Len(g.enemies) :
       g.enemies[i].pos.x * g.enemies[i].pos.x
         + g.enemies[i].pos.y * g.enemies[i].pos.y
           < CLOSE_THRESHOLD * CLOSE_THRESHOLD

\* C29: the run ends at a tick, and a tick ends it exactly when an enemy,
\* moved by that tick, is closer than CLOSE_THRESHOLD.  That tick freezes
\* the time survived and returns a record of it exactly when there is no
\* best time yet or the time is longer than the best, which it then
\* becomes; otherwise the best stays.  While the player is down no call
\* returns a record, a record is returned by no other call, and a restart
\* keeps the best time.
RunEndsOnceAtFirstContact ==
    [][ game.kind = GameKind_Shooter =>
          /\ (GameTickCall /\ game.alive) =>
                (~game'.alive <=> EnemyClose(game'))
          /\ (game.alive /\ ~game'.alive) =>
                /\ GameTickCall
                /\ game'.frozen_elapsed = Some(game.start_time)
                /\ IF \/ ~IsSome(game.best_survival)
                      \/ game.start_time > Unwrap(game.best_survival)
                   THEN /\ RecordOf(game.start_time, GameKind_Shooter)
                        /\ game'.best_survival = Some(game.start_time)
                   ELSE /\ returned' = Some(NoAction)
                        /\ game'.best_survival = game.best_survival
          /\ RecordReturned => (game.alive /\ ~game'.alive)
          /\ (GameCall /\ ~game.alive) =>
                /\ returned' = Some(NoAction)
                /\ game'.best_survival = game.best_survival
                /\ ~game'.alive => game'.frozen_elapsed = game.frozen_elapsed
      ]_vars

\* A run after the first has just ended sooner than the best one, at a
\* tick that returned no record.
ShorterRunEndedSeen ==
    /\ game.kind = GameKind_Shooter
    /\ ~game.alive
    /\ delivered.event.type = "None"
    /\ returned = Some(NoAction)
    /\ IsSome(game.best_survival)
    /\ Unwrap(game.frozen_elapsed) < Unwrap(game.best_survival)

----------------------------------------------------------------------------
(* The shooter from launch to the first kill *)

\* C30: in a run that has no kill yet, a shot at heading 0 with an enemy
\* straight ahead, more than MIN_DEPTH away and at most HIT_WINDOW to the
\* side, leaves one kill and one enemy fewer.
FirstShotAheadKills ==
    [][ (/\ Shot
         /\ game.kills = 0
         /\ game.heading = 0
         /\ \E i \in 1 .. Len(game.enemies) :
               /\ game.enemies[i].pos.y > MIN_DEPTH
               /\ Abs(game.enemies[i].pos.x) <= HIT_WINDOW) =>
          /\ game'.kills = 1
          /\ Len(game'.enemies) = Len(game.enemies) - 1
      ]_vars

\* The first run since the launch has just made its first kill, at
\* heading 0 after the first spawn interval, and the field is empty again.
FirstKillSeen ==
    /\ game.kind = GameKind_Shooter
    /\ game.alive
    /\ delivered.event.type = "Key"
    /\ IsFireKey(delivered.event.key)
    /\ game.best_survival = None
    /\ game.start_time >= BASE_SPAWN_MS
    /\ game.last_fire = Some(0)
    /\ game.heading = 0
    /\ game.kills = 1
    /\ game.enemies = <<>>

----------------------------------------------------------------------------
(* The refill of the shooter's magazine *)

\* A step that ticks the shooter while the player is alive.
LiveTick == GameTickCall /\ game.kind = GameKind_Shooter /\ game.alive

\* C31: a tick of a live run with a reload pending whose deadline has come
\* leaves the magazine at MAG_CAPACITY and no reload pending; a tick before
\* the deadline, and a tick with no reload pending, leave the magazine and
\* the reload as they were.  A fire attempt never adds a round, and within
\* a run the count of rounds grows by nothing but such a tick; the only
\* other step that fills the magazine is the restart after the run's end.
RefillOnlyByDueTick ==
    [][ game.kind = GameKind_Shooter =>
          /\ LiveTick =>
                IF IsSome(game.reloading_until)
                     /\ Unwrap(game.reloading_until) = 0
                THEN /\ game'.shots_remaining = MAG_CAPACITY
                     /\ game'.reloading_until = None
                ELSE /\ game'.shots_remaining = game.shots_remaining
                     /\ game'.reloading_until = game.reloading_until
          /\ FireAttempt => game'.shots_remaining <= game.shots_remaining
          /\ game'.shots_remaining > game.shots_remaining =>
                \/ /\ LiveTick
                   /\ game.reloading_until = Some(0)
                \/ /\ GameEventCall
                   /\ ~game.alive
                   /\ game'.alive
                   /\ IsRestartKey(delivered'.event.key)
      ]_vars

\* A tick has just found a reload short of its deadline and left the
\* empty magazine and the reload alone.
TickBeforeDeadlineSeen ==
    /\ game.kind = GameKind_Shooter
    /\ game.alive
    /\ delivered.event.type = "None"
    /\ IsSome(returned)
    /\ game.shots_remaining = 0
    /\ IsSome(game.reloading_until)
    /\ Unwrap(game.reloading_until) \in 1 .. (RELOAD_MS - 1)

----------------------------------------------------------------------------
(* The shooter's spawns after slow frames *)

\* C32: a tick of a live run adds as many enemies as whole spawn
\* intervals have passed since the last spawn boundary, moves the
\* boundary on by that many intervals, and so leaves less than one
\* interval between the boundary and the tick; the interval is never
\* shorter than MIN_SPAWN_MS, so the loop that does it comes to an end.  A
\* tick while the player is down adds no enemy.
SpawnsCatchUp ==
    [][ (GameTickCall /\ game.kind = GameKind_Shooter) =>
          LET interval == spawn_interval(game)
              due == game.last_spawn \div interval
          IN /\ interval >= MIN_SPAWN_MS
             /\ game.alive =>
                   /\ Len(game'.enemies) = Len(game.enemies) + due
                   /\ game'.last_spawn = game.last_spawn - due * interval
                   /\ game'.last_spawn < interval
             /\ ~game.alive =>
                   /\ game'.enemies = game.enemies
                   /\ game'.last_spawn = game.last_spawn
      ]_vars

\* The first tick after two spawn intervals has just spawned two enemies
\* straight ahead and moved both by the whole of that time.
TwoSpawnedAtOnceSeen ==
    /\ game.kind = GameKind_Shooter
    /\ game.alive
    /\ delivered.event.type = "None"
    /\ IsSome(returned)
    /\ game.start_time = 2 * BASE_SPAWN_MS
    /\ game.last_tick = 0
    /\ game.last_spawn = 0
    /\ Len(game.enemies) = 2
    /\ \A i \in 1 .. 2 :
          game.enemies[i].pos.y
            = 8 * UNIT - (ENEMY_BASE_SPEED * 2 * BASE_SPAWN_MS) \div UNIT

----------------------------------------------------------------------------
(* The shooter's heading *)

\* C33: whatever turn keys are pressed the heading is at least 0 and less
\* than a whole turn, and while the player is down a turn key leaves the
\* heading as it is.
HeadingWithinTurn ==
    [][ /\ game.heading >= 0
        /\ game.heading < TAU_F32
        /\ game'.heading >= 0
        /\ game'.heading < TAU_F32
        /\ (/\ GameEventCall
            /\ ~game.alive
            /\ delivered'.event.key \in {Char("h"), Char("l")}) =>
              game'.heading = game.heading
      ]_vars

----------------------------------------------------------------------------
(* The shooter while the player is down *)

\* What a run that is over keeps: the enemies, the kills, the heading, the
\* magazine, the pending reload and the frozen time survived.
Remains(g) ==
    <<g.enemies, g.kills, g.heading, g.shots_remaining, g.reloading_until,
      g.frozen_elapsed>>

\* C34: while the player is down, every tick, every key that is no
\* restart key and the passing of time leave the player down and the
\* enemies, kills, heading, magazine, pending reload and frozen time as
\* they are.  The player is alive again only by a restart key (Space,
\* Enter or r), and each of them starts a run at heading 0 with no enemy,
\* no kill, a full magazine, no reload and no frozen time.
DownUntilRestart ==
    [][ (game.kind = GameKind_Shooter /\ ~game.alive) =>
          IF GameEventCall /\ delivered'.event.type = "Key"
                /\ IsRestartKey(delivered'.event.key)
          THEN /\ game'.alive
               /\ Remains(game') = <<<<>>, 0, 0, MAG_CAPACITY, None, None>>
          ELSE /\ ~game'.alive
               /\ Remains(game') = Remains(game)
      ]_vars

\* A turn key has just met a player who is down among the enemies, with
\* the magazine partly used.
TurnWhileDownSeen ==
    /\ game.kind = GameKind_Shooter
    /\ ~game.alive
    /\ delivered.event.type = "Key"
    /\ delivered.event.key \in {Char("h"), Char("l")}
    /\ game.enemies # <<>>
    /\ game.shots_remaining \in 1 .. (MAG_CAPACITY - 1)

----------------------------------------------------------------------------
(* The life of a toast *)

\* C35: a toast that is shown goes away only by a tick that finds it
\* older than TOAST_MS, and every such tick takes it away; a tick that
\* finds it at most TOAST_MS old keeps it.  By every other step, an event
\* among them, it stays as it is, only older, or gives way to a toast
\* that was made in that step.
ToastExpiresByTick ==
    [][ IsSome(toast) =>
          /\ TickStep =>
                IF Unwrap(toast).age > TOAST_MS
                THEN toast' = None
                ELSE /\ Message(toast') = Message(toast)
                     /\ Unwrap(toast').age >= Unwrap(toast).age
          /\ ~TickStep =>
                /\ IsSome(toast')
                /\ \/ /\ Message(toast') = Message(toast)
                      /\ Unwrap(toast').age >= Unwrap(toast).age
                   \/ /\ EventStep
                      /\ Unwrap(toast').age = 0
      ]_vars

\* A tick has just found a toast at its deadline, not past it, and kept
\* it.
ToastKeptAtDeadlineSeen ==
    /\ pc = "draw"
    /\ iter # <<>> /\ iter[Len(iter)] = "tick"
    /\ IsSome(toast)
    /\ Unwrap(toast).age = TOAST_MS

----------------------------------------------------------------------------
(* The length of the histories *)

\* C36: no history is ever longer than HISTORY_LIMIT.  A record reported
\* for a kind goes to the end of that kind's history; if the history was
\* full its oldest record goes and the others keep their order; no other
\* history changes.
HistoryCapped ==
    [][ /\ \A k \in Kinds : /\ Len(stats[k]) <= HISTORY_LIMIT
                            /\ Len(stats'[k]) <= HISTORY_LIMIT
        /\ \A k \in Kinds, r \in 0 .. MaxScore :
              returned' = Some(Record(r, k)) =>
                 /\ stats'[k] = IF Len(stats[k]) < HISTORY_LIMIT
                                THEN Append(stats[k], r)
                                ELSE Append(Tail(stats[k]), r)
                 /\ \A j \in Kinds \ {k} : stats'[j] = stats[j]
      ]_vars

\* A history that was loaded full has just taken a reported record at its
\* end and let its oldest record go.
OldestDroppedSeen ==
    \E k \in Kinds :
       /\ returned = Some(Record(MaxScore, k))
       /\ Len(stats[k]) = HISTORY_LIMIT
       /\ stats[k][1] = MaxScore + 2
       /\ stats[k][HISTORY_LIMIT - 1] = MaxScore + HISTORY_LIMIT
       /\ stats[k][HISTORY_LIMIT] = MaxScore

----------------------------------------------------------------------------
(* The dispatcher *)

\* The module has no timer running that a tick could act on: the aim
\* trainer and the verbal memory never have one, the reaction test has one
\* while it waits, the number and the visual memory while they reveal.
NothingToTick(g) ==
    \/ g.kind \in {GameKind_AimTrainer, GameKind_VerbalMemory}
    \/ g.kind = GameKind_Reaction /\ g.phase.tag # "Waiting"
    \/ g.kind \in {GameKind_NumberMemory, GameKind_VisualMemory}
         /\ g.phase.tag # "Reveal"

\* C37: the module built for a kind reports that kind, and no handle_event
\* or handle_tick call changes the kind the module reports.  A tick of a
\* module with no timer running, and an event that is not a key, leave the
\* module as it was and return no effect.
DispatcherKeepsKind ==
    /\ [](\A k \in GameKinds : \A rnd \in NewRnds(k) :
            GameState_kind(GameState_new_of(k, rnd)) = k)
    /\ [][GameCall => GameState_kind(game') = GameState_kind(game)]_vars
    /\ [][ \/ GameTickCall /\ NothingToTick(game)
           \/ GameEventCall /\ delivered'.event.type = "Other"
           => game' = game /\ returned' = Some(NoAction) ]_vars

\* The aim trainer has just been ticked with one target tagged and the
\* next one waiting for a tick's time.
QuietAimTickSeen ==
    /\ delivered.event = NoEvent
    /\ delivered.to = {"game"}
    /\ returned = Some(NoAction)
    /\ GameState_kind(game) = GameKind_AimTrainer
    /\ game.hits = 1
    /\ game.spawn = TICK_RATE

----------------------------------------------------------------------------
(* Ticks under input *)

\* The last step of the loop performed on_tick.
TickJustRan == iter # <<>> /\ iter[Len(iter)] = "tick"

\* C38: while the loop runs and time advances, a tick is performed again
\* and again or the loop ends, whatever events arrive.  The boundary
\* check that finds the period elapsed performs the tick, in an iteration
\* that dispatched at most one event; and a tick is performed no sooner
\* than TICK_RATE after the boundary the tick before it set.
InputCannotStarveTicks ==
    /\ []<>(TickJustRan \/ pc = "done")
    /\ [][ (pc = "tick" /\ pc' # pc /\ elapsed >= TICK_RATE) =>
             /\ TickStep
             /\ Count(iter', "event") <= 1 ]_vars
    /\ [][ TickStep => elapsed >= TICK_RATE ]_vars

\* A tick has just run right after the dispatch of a key, while the
\* palette that an earlier key opened is still open.
TickBehindKeysSeen ==
    /\ pc = "draw"
    /\ iter = <<"render", "poll", "event", "tick">>
    /\ delivered = NoDelivery
    /\ IsSome(command)

----------------------------------------------------------------------------
(* The shooter's reload under fire keys *)

\* C39 as stated: a fire attempt of a live player leaves a pending reload
\* with the deadline it had, so that the first tick at or after that
\* deadline finds it and refills the magazine.
ReloadAlwaysCompletes ==
    [][ game.kind = GameKind_Shooter =>
          /\ (FireAttempt /\ IsSome(game.reloading_until)) =>
                game'.reloading_until = game.reloading_until
          /\ (LiveTick /\ game.reloading_until = Some(0)) =>
                /\ game'.shots_remaining = MAG_CAPACITY
                /\ game'.reloading_until = None
      ]_vars

----------------------------------------------------------------------------
(* The cursor on the grid *)

OnGrid == cursor[1] < grid.width /\ cursor[2] < grid.height

\* handle_key would return for the key, with no addition out of range
KeyIsSafe(key) ==
    /\ ~handle_key_panics(nav, key, grid.width, grid.height)
    /\ ~handle_key_overflows(nav, key, cursor, grid.width, grid.height)

\* C40 as stated: on every grid with cells the cursor stays on the grid
\* and handle_key neither panics nor overflows, whatever the key.
CursorStaysOnGrid ==
    /\ OnGrid
    /\ \A key \in WideKeys : KeyIsSafe(key)

\* The extents an isize can hold as well.
WithinIsize == grid.width <= ISIZE_MAX /\ grid.height <= ISIZE_MAX

\* C40: on a grid with cells whose width and height are at most
\* isize::MAX the cursor, started on the grid, stays on it after every
\* key, and handle_key neither panics nor overflows, whatever the key.
CursorStaysOnGridWithinIsize == WithinIsize => CursorStaysOnGrid

\* On the widest such grid a counted 'l' given one column short of the
\* last has stopped at the last column.
CountedMoveToWidestEdgeSeen ==
    /\ grid.width = ISIZE_MAX
    /\ keyed.key = Char("l")
    /\ keyed.was.count = Some(2)
    /\ cursor[1] = ISIZE_MAX - 1

====
